---- MODULE Spec2Model ----
\* Verification model of the sandbox orchestration engine (package runner),
\* its container identity helpers (package container), and the configuration
\* store (package config).
\*
\* Strings are modelled as sequences of tokens (a token is a character or an
\* atomic word); paths are sequences of path components, each component a
\* string.  The application name (cage / packnplay in the sources) is the
\* single token App.
EXTENDS Integers, Sequences, FiniteSets, TLC

\* ------------------------------------------------------------------ bounds
\* Run invocations started in one behaviour.
MaxRuns == 2
\* Partial updates of config.json started in one behaviour.
MaxUpdates == 2
\* --env entries of one invocation.
MaxEnv == 2
\* characters of a worktree name.
MaxNameLen == 4

\* --------------------------------------------------------- string helpers
App == "app"

Str(tok) == <<tok>>

Empty == <<>>

RECURSIVE ReplaceAll(_, _, _)
\* strings.ReplaceAll for a one-character pattern
ReplaceAll(s, old, new) ==
  IF s = <<>> THEN <<>>
  ELSE <<IF Head(s) = old THEN new ELSE Head(s)>> \o ReplaceAll(Tail(s), old, new)

\* strings.Contains(s, sub)
Contains(s, sub) ==
  \E i \in 1..(Len(s) - Len(sub) + 1) : SubSeq(s, i, i + Len(sub) - 1) = sub

\* strings.Index(s, c) for a one-character c; 0 when absent
IndexOf(s, c) ==
  IF \E i \in 1..Len(s) : s[i] = c
  THEN CHOOSE i \in 1..Len(s) : s[i] = c /\ \A j \in 1..(i - 1) : s[j] # c
  ELSE 0

RECURSIVE Split(_, _)
\* strings.Split(s, sep) for a one-character separator
Split(s, sep) ==
  LET i == IndexOf(s, sep) IN
  IF i = 0 THEN <<s>>
  ELSE <<SubSeq(s, 1, i - 1)>> \o Split(SubSeq(s, i + 1, Len(s)), sep)

RECURSIVE Join(_, _)
\* strings.Join(parts, sep)
Join(parts, sep) ==
  IF parts = <<>> THEN <<>>
  ELSE IF Len(parts) = 1 THEN parts[1]
  ELSE parts[1] \o sep \o Join(Tail(parts), sep)

\* filepath.Base for a non-root path
Base(path) == path[Len(path)]

\* filepath.Dir
Dir(path) == SubSeq(path, 1, Len(path) - 1)

Root == <<>>

\* ------------------------------------------------------ container identity
\* a sanitizer of path separators only
sanitizeSlashes(name) == ReplaceAll(name, "/", "-")

\* sanitizeName: '/' ' ' ':' become '-'
sanitizeName(name) ==
  ReplaceAll(ReplaceAll(ReplaceAll(name, "/", "-"), " ", "-"), ":", "-")

\* GenerateContainerName: <app>-<basename(project)>-<sanitized worktree>
GenerateContainerName(projectPath, worktreeName) ==
  <<App, "-">> \o Base(projectPath) \o <<"-">> \o sanitizeName(worktreeName)

\* sanitizeBranchName: '/' ':' ' ' become '-'
sanitizeBranchName(name) ==
  ReplaceAll(ReplaceAll(ReplaceAll(name, "/", "-"), ":", "-"), " ", "-")

\* host home directory and XDG data directory (~/.local/share)
HomeDir == <<Str("home"), Str("u")>>

XdgDataHome == HomeDir \o <<Str(".local"), Str("share")>>

\* DetermineWorktreePath: $XDG_DATA_HOME/<app>/worktrees/<project>/<sanitized>
DetermineWorktreePath(projectPath, worktreeName) ==
  XdgDataHome \o <<Str(App), Str("worktrees"), Base(projectPath),
                   sanitizeBranchName(worktreeName)>>

\* GenerateLabels: managed-by, <app>-project, <app>-worktree
GenerateLabels(projectName, worktreeName) ==
  [managedBy |-> Str(App), project |-> projectName, worktree |-> worktreeName,
   hostPath |-> Empty, launchCommand |-> Empty]

\* GenerateLabelsWithLaunchInfo: the three labels above plus <app>-host-path
\* and <app>-launch-command
GenerateLabelsWithLaunchInfo(projectName, worktreeName, hostPath, launchCommand) ==
  [managedBy |-> Str(App), project |-> projectName, worktree |-> worktreeName,
   hostPath |-> hostPath, launchCommand |-> launchCommand]

\* label keys as they appear in the runtime's label string
LabelKey == [managedBy |-> "managed-by", project |-> "<app>-project",
             worktree |-> "<app>-worktree", hostPath |-> "<app>-host-path",
             launchCommand |-> "<app>-launch-command"]

\* the labels a container carries: the three of GenerateLabels always, the two
\* launch labels only when GenerateLabelsWithLaunchInfo produced them
LabelFields(labels) ==
  IF labels.hostPath = Empty /\ labels.launchCommand = Empty
  THEN <<"managedBy", "project", "worktree">>
  ELSE <<"managedBy", "project", "worktree", "hostPath", "launchCommand">>

\* the runtime's `ps --format {{json .}}` Labels field: key=value pairs joined
\* by commas
LabelString(labels) ==
  LET fs == LabelFields(labels) IN
  Join([i \in 1..Len(fs) |-> <<LabelKey[fs[i]], "=">> \o labels[fs[i]]], <<",">>)

\* the value parseLabelsFromString assigns to `key`: the text after the first
\* '=' of the last comma-separated pair whose key part is `key`
ParsedValue(pairs, key) ==
  LET hits == {i \in 1..Len(pairs) :
                 IndexOf(pairs[i], "=") # 0
                 /\ SubSeq(pairs[i], 1, IndexOf(pairs[i], "=") - 1) = <<key>>}
  IN IF hits = {} THEN Empty
     ELSE LET i == CHOOSE j \in hits : \A k \in hits : k <= j
          IN SubSeq(pairs[i], IndexOf(pairs[i], "=") + 1, Len(pairs[i]))

\* parseLabelsFromString
parseLabelsFromString(labels) ==
  LET pairs == Split(labels, ",") IN
  [project |-> ParsedValue(pairs, LabelKey.project),
   worktree |-> ParsedValue(pairs, LabelKey.worktree),
   hostPath |-> ParsedValue(pairs, LabelKey.hostPath),
   launchCommand |-> ParsedValue(pairs, LabelKey.launchCommand)]

RECURSIVE PathString(_)
\* the text of an absolute path: "/" before every component
PathString(path) ==
  IF path = <<>> THEN <<>> ELSE <<"/">> \o Head(path) \o PathString(Tail(path))

\* ------------------------------------------------------------ host facts
\* os.Getenv: the empty string when the variable is not set (values are strings,
\* i.e. token sequences)
Getenv(env, key) == IF key \in DOMAIN env THEN env[key] ELSE Empty

\* the environment variable names of the model whose name starts with AWS_
AwsPrefixed ==
  {"AWS_ACCESS_KEY_ID", "AWS_SECRET_ACCESS_KEY", "AWS_SESSION_TOKEN",
   "AWS_PROFILE", "AWS_REGION", "AWS_CONTAINER_CREDENTIALS_FULL_URI"}

\* GetAWSEnvVars.excludeVars
excludeVars ==
  {"AWS_CONTAINER_CREDENTIALS_RELATIVE_URI", "AWS_CONTAINER_CREDENTIALS_FULL_URI",
   "AWS_CONTAINER_AUTHORIZATION_TOKEN"}

\* GetAWSEnvVars: every AWS_* variable of the host environment except the
\* excluded ones
GetAWSEnvVars(env) ==
  [k \in {x \in DOMAIN env : x \in AwsPrefixed /\ x \notin excludeVars} |-> env[k]]

\* a variant of the first priority that is content with the access key alone
HasAccessKey(env) == Getenv(env, "AWS_ACCESS_KEY_ID") # Empty

\* HasStaticCredentials
HasStaticCredentials(env) ==
  Getenv(env, "AWS_ACCESS_KEY_ID") # Empty /\ Getenv(env, "AWS_SECRET_ACCESS_KEY") # Empty

\* Run.credentialKeys
credentialKeys == <<"AWS_ACCESS_KEY_ID", "AWS_SECRET_ACCESS_KEY", "AWS_SESSION_TOKEN">>

CredKeySet == {credentialKeys[i] : i \in 1..Len(credentialKeys)}

\* Run, "AWS credentials handling": the awsCredentials map.  proc is the
\* outcome of ParseAWSConfig followed by GetCredentialsFromProcess: a record
\* [ok, AccessKeyID, SecretAccessKey, SessionToken].
AwsCredentialMap(env, awsOn, proc) ==
  LET hostVars == GetAWSEnvVars(env)
      fromProc == [k \in {"AWS_ACCESS_KEY_ID", "AWS_SECRET_ACCESS_KEY"}
                        \cup (IF proc.SessionToken # Empty THEN {"AWS_SESSION_TOKEN"} ELSE {})
                        \cup (DOMAIN hostVars \ CredKeySet) |->
                     IF k = "AWS_ACCESS_KEY_ID" THEN proc.AccessKeyID
                     ELSE IF k = "AWS_SECRET_ACCESS_KEY" THEN proc.SecretAccessKey
                     ELSE IF k = "AWS_SESSION_TOKEN" THEN proc.SessionToken
                     ELSE hostVars[k]]
  IN IF ~awsOn THEN << >>
     ELSE IF HasStaticCredentials(env) THEN hostVars
     ELSE IF Getenv(env, "AWS_PROFILE") # Empty /\ proc.ok THEN fromProc
     ELSE hostVars

\* ~/.aws/config (or $AWS_CONFIG_FILE): whether it can be opened, and for each
\* profile section it has the value of its credential_process directive (the
\* empty string when the section has none)
NoAwsConfig == [exists |-> FALSE, profiles |-> << >>]

\* a failed call
ProcessFailed(err, executed) ==
  [ok |-> FALSE, err |-> err, executed |-> executed, AccessKeyID |-> Empty,
   SecretAccessKey |-> Empty, SessionToken |-> Empty]

\* ParseAWSConfig: the credential_process directive of the profile
ParseAWSConfig(awsConfig, profile) ==
  IF ~awsConfig.exists THEN [ok |-> FALSE, err |-> "failed to open AWS config", value |-> Empty]
  ELSE IF profile \notin DOMAIN awsConfig.profiles
  THEN [ok |-> FALSE, err |-> "profile not found", value |-> Empty]
  ELSE IF awsConfig.profiles[profile] = Empty
  THEN [ok |-> FALSE, err |-> "no credential_process configured", value |-> Empty]
  ELSE [ok |-> TRUE, err |-> "", value |-> awsConfig.profiles[profile]]

\* the seconds GetCredentialsFromProcess gives the process
ProcessTimeout == 30

\* a variant that takes whatever JSON the process prints
GetCredentialsUnvalidated(credentialProcess, beh) ==
  IF credentialProcess = Empty \/ beh.seconds >= 30 \/ beh.exit # 0 \/ ~beh.json
  THEN ProcessFailed("credential_process failed", credentialProcess # Empty)
  ELSE [ok |-> TRUE, err |-> "", executed |-> TRUE, AccessKeyID |-> beh.AccessKeyId,
        SecretAccessKey |-> beh.SecretAccessKey, SessionToken |-> beh.SessionToken]

\* GetCredentialsFromProcess: sh -c <credentialProcess> under a deadline; beh is
\* what the process does: the seconds it takes, its exit status, whether its
\* output is JSON, and the fields of that JSON
GetCredentialsFromProcess(credentialProcess, beh) ==
  IF credentialProcess = Empty THEN ProcessFailed("empty credential_process", FALSE)
  ELSE IF beh.seconds >= ProcessTimeout
  THEN ProcessFailed("credential_process timed out after 30 seconds", TRUE)
  ELSE IF beh.exit # 0 THEN ProcessFailed("credential_process failed", TRUE)
  ELSE IF ~beh.json THEN ProcessFailed("failed to parse credential_process JSON output", TRUE)
  ELSE IF beh.AccessKeyId = Empty
  THEN ProcessFailed("credential_process output missing required field 'AccessKeyId'", TRUE)
  ELSE IF beh.SecretAccessKey = Empty
  THEN ProcessFailed("credential_process output missing required field 'SecretAccessKey'", TRUE)
  ELSE [ok |-> TRUE, err |-> "", executed |-> TRUE, AccessKeyID |-> beh.AccessKeyId,
        SecretAccessKey |-> beh.SecretAccessKey, SessionToken |-> beh.SessionToken]

\* Run, "Priority 2": ParseAWSConfig for the profile, then
\* GetCredentialsFromProcess for its directive
CredentialProcess(awsConfig, profile, beh) ==
  LET parsed == ParseAWSConfig(awsConfig, profile) IN
  IF ~parsed.ok THEN ProcessFailed(parsed.err, FALSE)
  ELSE GetCredentialsFromProcess(parsed.value, beh)

\* Run, "AWS credentials handling": what Run does, in order.  "static": the
\* host variables are adopted; "parse": ParseAWSConfig is called; "exec": the
\* credential process is executed; "warning": a warning is printed;
\* "process": the credentials of the process are adopted; "fallback": the host
\* variables are passed through
AwsSteps(env, awsOn, awsConfig, beh) ==
  LET profile == Getenv(env, "AWS_PROFILE")
      proc == CredentialProcess(awsConfig, profile, beh)
  IN IF ~awsOn THEN <<>>
     ELSE IF HasStaticCredentials(env) THEN <<"static">>
     ELSE IF profile = Empty THEN <<"fallback">>
     ELSE <<"parse">> \o (IF proc.executed THEN <<"exec">> ELSE <<>>)
          \o (IF proc.ok THEN <<"process">> ELSE <<"warning", "fallback">>)

\* the keys of awsCredentials that are not credential keys (Run.otherKeys,
\* before any ordering)
OtherAwsKeys(awsCredentials) == DOMAIN awsCredentials \ CredKeySet

\* all orderings of a finite set
Perms(S) ==
  {q \in [1..Cardinality(S) -> S] : \A i, j \in 1..Cardinality(S) : i # j => q[i] # q[j]}

\* Run.safeEnvVars
safeEnvVars == <<"TERM", "LANG", "LC_ALL", "LC_CTYPE", "LC_MESSAGES", "COLORTERM">>

SafeSet == {safeEnvVars[i] : i \in 1..Len(safeEnvVars)}

EnvArg(k, v) == [f |-> "-e", k |-> k, v |-> v]

RECURSIVE PassThrough(_, _)
\* one -e KEY=value for every listed variable that is set on the host
PassThrough(keys, env) ==
  IF keys = <<>> THEN <<>>
  ELSE (IF Getenv(env, Head(keys)) # Empty THEN <<EnvArg(Head(keys), Getenv(env, Head(keys)))>>
        ELSE <<>>) \o PassThrough(Tail(keys), env)

RECURSIVE UserEnv(_, _)
\* the --env entries: KEY=value verbatim, KEY passed through when set
UserEnv(entries, env) ==
  IF entries = <<>> THEN <<>>
  ELSE (IF Head(entries).eq THEN <<EnvArg(Head(entries).key, Head(entries).val)>>
        ELSE IF Getenv(env, Head(entries).key) # Empty
             THEN <<EnvArg(Head(entries).key, Getenv(env, Head(entries).key))>>
             ELSE <<>>) \o UserEnv(Tail(entries), env)

\* a variant that hands the container the HOME of the host
HomeOfHost(remoteUser) == EnvArg("HOME", PathString(HomeDir))

\* Run, "Set HOME to container user's home directory"
HomeEnv(remoteUser) == EnvArg("HOME", PathString(<<Str("home"), remoteUser>>))

\* the order in which Run walks otherKeys: the order of iteration over the
\* awsCredentials map, which the Go runtime picks (iter is one of its orders)
OtherKeyOrder(awsCredentials, iter) == iter

\* Run, "Add environment variables": the -e arguments in order
EnvArgs(env, remoteUser, defaultEnvVars, awsOn, awsCredentials, iter, userEnv) ==
  LET order == OtherKeyOrder(awsCredentials, iter) IN
  PassThrough(safeEnvVars, env)
  \o <<HomeEnv(remoteUser)>>
  \o <<EnvArg("IS_SANDBOX", <<"1">>)>>
  \o PassThrough(defaultEnvVars, env)
  \o (IF awsOn /\ DOMAIN awsCredentials # {}
      THEN SelectSeq([i \in 1..Len(credentialKeys) |->
                        IF credentialKeys[i] \in DOMAIN awsCredentials
                        THEN EnvArg(credentialKeys[i], awsCredentials[credentialKeys[i]])
                        ELSE EnvArg("", Empty)],
                     LAMBDA e : e.k # "")
           \o [i \in 1..Len(order) |-> EnvArg(order[i], awsCredentials[order[i]])]
      ELSE <<>>)
  \o UserEnv(userEnv, env)

\* --------------------------------------------------------------- mounts
Mount(src, dst, ro) == [f |-> "-v", src |-> src, dst |-> dst, ro |-> ro]

\* fileExists for a path below the host home directory
fileExists(host, rel) == rel \in host.files

\* resolveMountPath: the path with symbolic links followed
resolveMountPath(host, rel) ==
  IF rel \in DOMAIN host.links THEN host.links[rel] ELSE HomeDir \o rel

\* Run.agentConfigDirs
agentConfigDirs == <<".codex", ".gemini", ".copilot", ".qwen", ".cursor", ".deepseek">>

\* /home/<remote_user>/<rel>
InHome(remoteUser, rel) == <<Str("home"), remoteUser>> \o rel

\* the host file Run tests for the overlay decision
hostCredFile == <<Str(".claude"), Str(".credentials.json")>>

\* a variant that is content with any host file, whatever its size
hostHasCredentialFile(host) == host.credSize # -1

\* Run.hostHasCredentials: the host file exists and has at least 20 bytes
\* (host.credSize is -1 when the file does not exist)
hostHasCredentials(host) == host.credSize # -1 /\ host.credSize >= 20

\* Run.needsCredentialOverlay
needsCredentialOverlay(host) == ~hostHasCredentials(host)

\* getOrCreateContainerCredentialFile: the path of the shared file
CredentialFilePath ==
  XdgDataHome \o <<Str(App), Str("credentials"), Str("claude-credentials.json")>>

Opt(cond, entry) == IF cond THEN <<entry>> ELSE <<>>

RECURSIVE AgentMounts(_, _, _)
\* one read-write mount for every agent config directory that exists
AgentMounts(dirs, host, remoteUser) ==
  IF dirs = <<>> THEN <<>>
  ELSE Opt(fileExists(host, <<Str(Head(dirs))>>),
           Mount(HomeDir \o <<Str(Head(dirs))>>, InHome(remoteUser, <<Str(Head(dirs))>>), FALSE))
       \o AgentMounts(Tail(dirs), host, remoteUser)

\* the identity mount of the workspace
WorkspaceMount(mountPath) == Mount(mountPath, mountPath, FALSE)

\* a variant that mounts the credential file before the .claude directory
MountArgsOverlayFirst(host, remoteUser, mountPath, mainRepoGitDir, creds) ==
  Opt(needsCredentialOverlay(host),
      Mount(CredentialFilePath, InHome(remoteUser, hostCredFile), FALSE))
  \o <<Mount(HomeDir \o <<Str(".claude")>>, InHome(remoteUser, <<Str(".claude")>>), FALSE)>>
  \o <<WorkspaceMount(mountPath)>>

\* Run, "Mount .claude directory" to "Mount ~/.aws directory": the -v
\* arguments in order
MountArgs(host, remoteUser, mountPath, mainRepoGitDir, creds) ==
  <<Mount(HomeDir \o <<Str(".claude")>>, InHome(remoteUser, <<Str(".claude")>>), FALSE)>>
  \o Opt(needsCredentialOverlay(host),
         Mount(CredentialFilePath, InHome(remoteUser, hostCredFile), FALSE))
  \o <<WorkspaceMount(mountPath)>>
  \o AgentMounts(agentConfigDirs, host, remoteUser)
  \o Opt(fileExists(host, <<Str(".config"), Str("amp")>>),
         Mount(HomeDir \o <<Str(".config"), Str("amp")>>,
               InHome(remoteUser, <<Str(".config"), Str("amp")>>), FALSE))
  \o Opt(mainRepoGitDir # Root, Mount(mainRepoGitDir, mainRepoGitDir, FALSE))
  \o Opt(creds.git /\ fileExists(host, <<Str(".gitconfig")>>),
         Mount(resolveMountPath(host, <<Str(".gitconfig")>>),
               InHome(remoteUser, <<Str(".gitconfig")>>), TRUE))
  \o Opt(creds.ssh /\ fileExists(host, <<Str(".ssh")>>),
         Mount(HomeDir \o <<Str(".ssh")>>, InHome(remoteUser, <<Str(".ssh")>>), TRUE))
  \o Opt(creds.gh /\ host.isLinux /\ fileExists(host, <<Str(".config"), Str("gh")>>),
         Mount(HomeDir \o <<Str(".config"), Str("gh")>>,
               InHome(remoteUser, <<Str(".config"), Str("gh")>>), FALSE))
  \o Opt(creds.gpg /\ fileExists(host, <<Str(".gnupg")>>),
         Mount(HomeDir \o <<Str(".gnupg")>>, InHome(remoteUser, <<Str(".gnupg")>>), TRUE))
  \o Opt(creds.npm /\ fileExists(host, <<Str(".npmrc")>>),
         Mount(resolveMountPath(host, <<Str(".npmrc")>>),
               InHome(remoteUser, <<Str(".npmrc")>>), TRUE))
  \o Opt(creds.aws /\ fileExists(host, <<Str(".aws")>>),
         Mount(HomeDir \o <<Str(".aws")>>, InHome(remoteUser, <<Str(".aws")>>), FALSE))

\* Run.isApple
isApple(host) == ~host.isLinux /\ host.runtime = "container"

\* a variant that works in a fixed /workspace directory
WorkspaceDir(mountPath) == <<Str("workspace")>>

\* Run.workingDir
workingDir(mountPath) == mountPath

\* Run.imageName: the tag of the image built from the dev container's
\* Dockerfile, else the configured image
imageName(devConfig, projectName) ==
  IF devConfig.DockerFile # Empty
  THEN <<App, "-">> \o projectName \o <<"-devcontainer:latest">>
  ELSE devConfig.Image

\* Run, "Build docker run command" to "Add a command that keeps container
\* alive": the argument vector of `run`
RunArgs(h, cfg, devConfig, projectName, labels, containerName, mountPath, mainRepoGitDir, awsCredentials, iter) ==
  <<[f |-> "run", d |-> TRUE, it |-> ~isApple(h)],
    [f |-> "--label", labels |-> labels],
    [f |-> "--name", name |-> containerName]>>
  \o MountArgs(h, devConfig.RemoteUser, mountPath, mainRepoGitDir, cfg.Credentials)
  \o <<[f |-> "-w", dir |-> workingDir(mountPath)]>>
  \o EnvArgs(h.env, devConfig.RemoteUser, cfg.DefaultEnvVars, cfg.Credentials.aws,
             awsCredentials, iter, cfg.Env)
  \o [i \in 1..Len(cfg.PublishPorts) |-> [f |-> "-p", port |-> cfg.PublishPorts[i]]]
  \o <<[f |-> "image", image |-> imageName(devConfig, projectName)],
       [f |-> "cmd", argv |-> <<"sleep", "infinity">>]>>

\* the entries of an argument vector that carry flag f
ArgsOf(args, flag) == SelectSeq(args, LAMBDA a : a.f = flag)

\* ------------------------------------------------------------- the state
VARIABLES
  host,        \* facts of the host: runtime, OS, files, environment
  containers,  \* the runtime's containers, by name
  images,      \* image references present locally
  worktrees,   \* branch names that have a git worktree
  credFile,    \* contents of the shared container credential file, or "absent"
  inv,         \* per process: the locals of its Run invocation
  pc,          \* per process: its position in Run
  log,         \* per process: the runtime commands its invocation has issued
  out,         \* per process: how its invocation ended
  runs,        \* Run invocations started so far
  configFile,  \* config.json: its fields, or "absent"
  upd,         \* per updater: the state of its UpdateConfigSafely call
  plan         \* argument-vector planning: inputs and result

vars == <<host, containers, images, worktrees, credFile, inv, pc, log, out, runs,
          configFile, upd, plan>>

runVars == <<host, containers, images, worktrees, credFile, inv, pc, log, out, runs>>

Procs == {1}

\* the project and the worktree names of the model
WorkDir == <<Str("home"), Str("u"), Str("p")>>

CurrentBranch == <<"f">>

WorktreeFlags == {Empty, <<"f", "/", "2">>}

NoWorktreeName == <<"no-worktree">>

AllNames ==
  {GenerateContainerName(WorkDir, w) :
     w \in (WorktreeFlags \ {Empty}) \cup {CurrentBranch, NoWorktreeName}}

\* `by` is history: the process whose `run -d` created the container, 0 for
\* none of them
NoContainer == [st |-> "absent", id |-> Empty, status |-> Empty, args |-> <<>>, by |-> 0]

\* container ids handed out by docker and podman
IdToken == <<"id1", "id2", "id3", "id4", "id5">>

\* the running containers the `name=` filter of ps selects: the filter matches
\* every name that contains the given text
RunningMatches(cs, name) ==
  {n \in DOMAIN cs : cs[n].st = "running" /\ Contains(n, name)}

\* the container a command addresses by id or by name
Addressed(cs, ref) ==
  {n \in DOMAIN cs : cs[n].st # "absent" /\ (cs[n].id = ref \/ n = ref)}

LabelsOf(c) == ArgsOf(c.args, "--label")[1].labels

Cmd(op, tgt, ok) == [op |-> op, tgt |-> tgt, ok |-> ok]

NoResult == [kind |-> "none"]

Failed(err) == [kind |-> "error", err |-> err]

\* ------------------------------------------------- Run (host-path revision)
\* the configurations Run is invoked with
RunConfigs ==
  [Worktree : WorktreeFlags, NoWorktree : BOOLEAN, Reconnect : BOOLEAN,
   HostPath : {Empty, PathString(WorkDir)},
   LaunchCommand : {Empty, <<"run", " ", "claude">>},
   Command : {<<Str("claude")>>}, Env : {<<>>}, DefaultEnvVars : {<<"ANTHROPIC_API_KEY">>},
   PublishPorts : {<<>>},
   Credentials : {[git |-> TRUE, ssh |-> FALSE, gh |-> TRUE, gpg |-> FALSE,
                   npm |-> FALSE, aws |-> FALSE]}]

\* the configurations the command line produces: the two launch fields are
\* filled in together, and --no-worktree comes without --worktree
CliConfigs ==
  {c \in RunConfigs : (c.HostPath = Empty) = (c.LaunchCommand = Empty)
                      /\ (c.NoWorktree => c.Worktree = Empty)}

\* devcontainer.GetDefaultConfig: the default image and the user detected for it
GetDefaultConfig == [Image |-> Str("default-image"), DockerFile |-> Empty,
                     RemoteUser |-> Str("vscode")]

\* devcontainer.LoadConfig: the parsed devcontainer.json of the host, none when
\* the file does not exist; a missing remoteUser is detected from the image
LoadConfig(h) ==
  IF h.devcontainer = "none" THEN GetDefaultConfig
  ELSE IF h.devcontainer = "image"
  THEN [Image |-> Str("project-image"), DockerFile |-> Empty, RemoteUser |-> Str("vscode")]
  ELSE [Image |-> Empty, DockerFile |-> Str("Dockerfile"), RemoteUser |-> Str("dev")]

\* WorktreeExists: `git worktree list --porcelain` has a line
\* "branch refs/heads/<name>"; wts are the working trees git lists, by branch,
\* the main working tree with the branch it has checked out among them
WorktreeExists(wts, worktreeName) == worktreeName \in DOMAIN wts

\* GetWorktreePath: the directory git lists for the branch
GetWorktreePath(wts, worktreeName) == wts[worktreeName]

\* Run steps 1 to 4 and 6: working directory, worktree, dev container config,
\* container name and labels of an invocation with configuration cfg, given
\* the worktrees that exist.  `running` records what was true of the container
\* of this name when Run asked the runtime, `seq` the number of the invocation
\* among those started.
Invocation(h, cfg, wts) ==
  LET worktreeName == IF cfg.NoWorktree THEN NoWorktreeName
                      ELSE IF cfg.Worktree # Empty THEN cfg.Worktree
                      ELSE CurrentBranch
      mountPath == IF cfg.NoWorktree THEN WorkDir
                   ELSE IF WorktreeExists(wts, worktreeName)
                   THEN GetWorktreePath(wts, worktreeName)
                   ELSE DetermineWorktreePath(WorkDir, worktreeName)
      projectName == Base(WorkDir)
      labels == IF cfg.HostPath # Empty /\ cfg.LaunchCommand # Empty
                THEN GenerateLabelsWithLaunchInfo(projectName, worktreeName,
                                                  cfg.HostPath, cfg.LaunchCommand)
                ELSE GenerateLabels(projectName, worktreeName)
  IN [cfg |-> cfg, workDir |-> WorkDir, worktreeName |-> worktreeName,
      mountPath |-> mountPath,
      mainRepoGitDir |-> IF cfg.NoWorktree THEN Root ELSE WorkDir \o <<Str(".git")>>,
      devConfig |-> LoadConfig(h),
      containerName |-> GenerateContainerName(WorkDir, worktreeName),
      labels |-> labels, containerID |-> Empty, pending |-> "none",
      running |-> "unchecked", seq |-> 0]

\* Run steps 1 to 4 and 6, with the worktree created when it does not exist
Start(p) ==
  /\ pc[p] \in {"idle", "done"}
  /\ runs < MaxRuns
  /\ \E cfg \in CliConfigs :
       LET i == Invocation(host, cfg, worktrees)
           exists == WorktreeExists(worktrees, i.worktreeName)
           \* git worktree add fails when the directory is already in use
           createFails == ~cfg.NoWorktree /\ ~exists
                          /\ \E w \in DOMAIN worktrees : worktrees[w] = i.mountPath
       IN /\ inv' = [inv EXCEPT ![p] = [i EXCEPT !.seq = runs + 1]]
          /\ IF createFails
             THEN /\ pc' = [pc EXCEPT ![p] = "done"]
                  /\ out' = [out EXCEPT ![p] = Failed("WorktreeError")]
                  /\ UNCHANGED worktrees
             ELSE /\ pc' = [pc EXCEPT ![p] = "ensureImage"]
                  /\ out' = [out EXCEPT ![p] = NoResult]
                  /\ worktrees' = IF cfg.NoWorktree \/ exists THEN worktrees
                                  ELSE [w \in DOMAIN worktrees \cup {i.worktreeName} |->
                                          IF w = i.worktreeName THEN i.mountPath
                                          ELSE worktrees[w]]
  /\ runs' = runs + 1
  /\ log' = [log EXCEPT ![p] = <<>>]
  /\ UNCHANGED <<host, containers, images, credFile, configFile, upd, plan>>

\* ensureImage: the tag it inspects, and builds or pulls when missing
EnsureTag(devConfig, projectPath) ==
  IF devConfig.DockerFile # Empty
  THEN <<App, "-">> \o Base(projectPath) \o <<"-devcontainer:latest">>
  ELSE devConfig.Image

\* Run step 5, ensureImage: inspect the image, build or pull it when missing
EnsureImageThen(p, next) ==
  /\ pc[p] = "ensureImage"
  /\ LET tag == EnsureTag(inv[p].devConfig, inv[p].mountPath)
         fetch == IF inv[p].devConfig.DockerFile # Empty THEN "build" ELSE "pull"
     IN IF tag \in images
        THEN /\ log' = [log EXCEPT ![p] = @ \o <<Cmd("image inspect", tag, TRUE)>>]
             /\ pc' = [pc EXCEPT ![p] = next]
             /\ UNCHANGED <<images, out>>
        ELSE \E ok \in BOOLEAN :
             /\ log' = [log EXCEPT ![p] = @ \o <<Cmd("image inspect", tag, FALSE),
                                                Cmd(fetch, tag, ok)>>]
             /\ images' = IF ok THEN images \cup {tag} ELSE images
             /\ pc' = [pc EXCEPT ![p] = IF ok THEN next ELSE "done"]
             /\ out' = [out EXCEPT ![p] = IF ok THEN @ ELSE Failed("ImageUnavailable")]
  /\ UNCHANGED <<host, containers, worktrees, credFile, inv, runs, configFile, upd, plan>>

EnsureImage(p) == EnsureImageThen(p, "checkRunning")

\* containerIsRunning, given that ps succeeded.  docker and podman: the
\* trimmed output of `ps --filter name=<name>` equals the name.  Apple
\* Container: the listing has an object with this id whose status is running.
containerIsRunning(h, cs, name) ==
  IF h.runtime = "container"
  THEN cs[name].st = "running"
  ELSE RunningMatches(cs, name) = {name}

\* a variant that connects to a running container whatever the flags
AttachWhenRunning(reconnect) == "getID"

\* Run step 7, the container is reported running: the conflict error, unless
\* config.Reconnect
WhenRunning(reconnect) == IF reconnect THEN "getID" ELSE "conflict"

\* Run step 7, first half: is the container of this identity running?
CheckRunning(p) ==
  /\ pc[p] = "checkRunning"
  /\ \E ok \in BOOLEAN :
       /\ log' = [log EXCEPT ![p] = @ \o <<Cmd("ps", inv[p].containerName, ok)>>]
       /\ IF ~ok
          THEN /\ pc' = [pc EXCEPT ![p] = "done"]
               /\ out' = [out EXCEPT ![p] = Failed("StatusCheckFailed")]
          ELSE /\ pc' = [pc EXCEPT ![p] =
                          IF ~containerIsRunning(host, containers, inv[p].containerName)
                          THEN "rmStale"
                          ELSE WhenRunning(inv[p].cfg.Reconnect)]
               /\ UNCHANGED out
       /\ inv' = [inv EXCEPT ![p].running =
                    IF ~ok THEN @
                    ELSE IF containers[inv[p].containerName].st = "running" THEN "yes"
                    ELSE "no"]
  /\ UNCHANGED <<host, containers, images, worktrees, credFile, runs, configFile,
                 upd, plan>>

\* Run, "Build command string": arguments joined by spaces, an argument that
\* contains a space in single quotes
CommandString(command) ==
  Join([i \in 1..Len(command) |->
          IF Contains(command[i], <<" ">>) THEN <<"'">> \o command[i] \o <<"'">>
          ELSE command[i]], <<" ">>)

\* Run.worktreeFlag of the conflict message
WorktreeFlag(worktreeName, currentDir, hostPath) ==
  LET needWorktreeFlag == IF currentDir # Empty /\ hostPath # Empty
                          THEN currentDir # hostPath ELSE TRUE
  IN IF needWorktreeFlag /\ worktreeName # NoWorktreeName
     THEN <<" --worktree=">> \o worktreeName ELSE Empty

\* Run.errorMsg: the lines of the conflict error
ConflictMessage(details, command, worktreeName, currentDir) ==
  <<<<"container already running for this worktree">>,
    <<"Name: ">> \o details.Names,
    <<"Status: ">> \o details.Status,
    <<"Project: ">> \o details.Project,
    <<"Worktree: ">> \o details.Worktree>>
  \o Opt(details.HostPath # Empty, <<"Host Path: ">> \o details.HostPath)
  \o Opt(details.LaunchCommand # Empty, <<"Original Command: ">> \o details.LaunchCommand)
  \o <<<<App, " run">> \o WorktreeFlag(worktreeName, currentDir, details.HostPath)
         \o <<" --reconnect ">> \o CommandString(command),
       <<App, " stop ">> \o details.Names>>

\* Run's fallback error when the details cannot be read
BasicConflictMessage ==
  <<<<"container already running for this worktree (unable to get details)">>>>

\* getContainerDetails for the container the runtime lists as `name`
ContainerDetails(cs, name) ==
  LET parsed == parseLabelsFromString(LabelString(LabelsOf(cs[name]))) IN
  [Names |-> name, Status |-> cs[name].status, Project |-> parsed.project,
   Worktree |-> parsed.worktree, HostPath |-> parsed.hostPath,
   LaunchCommand |-> parsed.launchCommand]

\* Run step 7, container running and no reconnect: the conflict error.
\* getContainerDetails runs `ps --filter name=<name> --format {{json .}}` and
\* reads the first line; Apple Container has no --filter, the command fails.
Conflict(p) ==
  /\ pc[p] = "conflict"
  /\ \E ok \in BOOLEAN :
       LET lines == RunningMatches(containers, inv[p].containerName)
           good  == ok /\ host.runtime # "container" /\ lines # {}
       IN /\ log' = [log EXCEPT ![p] = @ \o <<Cmd("ps json", inv[p].containerName,
                                                   ok /\ host.runtime # "container")>>]
          /\ IF good
             THEN \E first \in lines :
                    out' = [out EXCEPT ![p] =
                      [kind |-> "error", err |-> "ContainerConflict",
                       msg |-> ConflictMessage(ContainerDetails(containers, first),
                                               inv[p].cfg.Command, inv[p].worktreeName,
                                               PathString(inv[p].workDir))]]
             ELSE out' = [out EXCEPT ![p] =
                      [kind |-> "error", err |-> "ContainerConflict",
                       msg |-> BasicConflictMessage]]
  /\ pc' = [pc EXCEPT ![p] = "done"]
  /\ UNCHANGED <<host, containers, images, worktrees, credFile, inv, runs, configFile,
                 upd, plan>>

\* getContainerID, given that ps succeeded.  docker and podman: the trimmed
\* output of `ps --filter name=<name> --format {{.ID}}`, one id per line.
\* Apple Container: the name, when the listing has it.
ContainerIdOutputs(h, cs, name) ==
  LET m == RunningMatches(cs, name) IN
  IF h.runtime = "container" THEN {name}
  ELSE {Join([i \in 1..Cardinality(m) |-> cs[q[i]].id], <<"\n">>) : q \in Perms(m)}

\* the final exec: exec -it -w <dir> <container> <command...>, replacing the
\* process
ExecArgs(dir, containerID, command) ==
  [w |-> dir, container |-> containerID, command |-> command]

\* the working directory Run passes to exec on reconnect
ReconnectDir(i) == i.workDir

\* Run step 7, container running and reconnect requested: resolve the id and
\* exec the command in the existing container
GetID(p) ==
  /\ pc[p] = "getID"
  /\ \E ok \in BOOLEAN :
       LET found == host.runtime # "container"
                    \/ containers[inv[p].containerName].st # "absent"
       IN /\ log' = [log EXCEPT ![p] = @ \o <<Cmd("ps", inv[p].containerName, ok)>>
                                         \o (IF ok /\ found
                                             THEN <<Cmd("execve", inv[p].containerName, TRUE)>>
                                             ELSE <<>>)]
          /\ IF ok /\ found
             THEN \E id \in ContainerIdOutputs(host, containers, inv[p].containerName) :
                    /\ inv' = [inv EXCEPT ![p].containerID = id]
                    /\ out' = [out EXCEPT ![p] =
                                 [kind |-> "exec",
                                  exec |-> ExecArgs(ReconnectDir(inv[p]), id,
                                                    inv[p].cfg.Command)]]
             ELSE /\ out' = [out EXCEPT ![p] = Failed("ContainerIdFailed")]
                  /\ UNCHANGED inv
  /\ pc' = [pc EXCEPT ![p] = "done"]
  /\ UNCHANGED <<host, containers, images, worktrees, credFile, runs, configFile, upd, plan>>

\* a variant of the removal step that gives up when rm fails
RmStaleOrAbort(p) ==
  /\ pc[p] = "rmStale"
  /\ LET name == inv[p].containerName
         ok == containers[name].st = "stopped"
     IN /\ log' = [log EXCEPT ![p] = @ \o <<Cmd("rm", name, ok)>>]
        /\ containers' = IF ok THEN [containers EXCEPT ![name] = NoContainer]
                         ELSE containers
        /\ pc' = [pc EXCEPT ![p] = IF ok THEN "startContainer" ELSE "done"]
        /\ out' = [out EXCEPT ![p] = IF ok THEN @ ELSE Failed("RemoveFailed")]
  /\ UNCHANGED <<host, images, worktrees, credFile, inv, runs, configFile, upd, plan>>

\* Run, "Remove any stopped containers with same name": rm <name>, which the
\* runtime refuses unless a stopped container has that name; the outcome is
\* ignored
RmStale(p) ==
  /\ pc[p] = "rmStale"
  /\ LET name == inv[p].containerName
         ok == containers[name].st = "stopped"
     IN /\ log' = [log EXCEPT ![p] = @ \o <<Cmd("rm", name, ok)>>]
        /\ containers' = IF ok THEN [containers EXCEPT ![name] = NoContainer]
                         ELSE containers
  /\ pc' = [pc EXCEPT ![p] = "startContainer"]
  /\ UNCHANGED <<host, images, worktrees, credFile, inv, out, runs, configFile, upd, plan>>

\* getInitialContainerCredentials: the host's .credentials.json on Linux (when
\* it exists), the keychain entry on macOS (when there is one), else "{}"
InitialCredentials(h) ==
  IF h.isLinux /\ h.credSize # -1 THEN "host-file"
  ELSE IF ~h.isLinux /\ h.keychain THEN "keychain"
  ELSE "{}"

\* a variant that writes the initial credentials on every call
CredentialFileRewritten(h, file) == InitialCredentials(h)

\* getOrCreateContainerCredentialFile: the shared file after the call
CredentialFileAfter(h, file) == IF file = "absent" THEN InitialCredentials(h) ELSE file

\* the permission bits of the credential file, 0600
CredentialFileMode == 384

\* getOrCreateContainerCredentialFile(containerName): the path it returns and
\* the os.WriteFile call it makes
getOrCreateContainerCredentialFile(containerName, h, file) ==
  [path |-> CredentialFilePath,
   writes |-> IF CredentialFileAfter(h, file) # file
              THEN <<[op |-> "write file", tgt |-> CredentialFilePath, ok |-> TRUE,
                      mode |-> CredentialFileMode, for |-> containerName,
                      content |-> CredentialFileAfter(h, file)]>>
              ELSE <<>>]

\* the id `run -d` prints: a fresh id on docker and podman, the name on Apple
\* Container
NewContainerId(h, name, n) == IF h.runtime = "container" THEN name ELSE Str(IdToken[n])

\* the run argument vector of invocation i
PlannedArgs(h, i, iter) ==
  RunArgs(h, i.cfg, i.devConfig, Base(i.workDir), i.labels, i.containerName,
          i.mountPath, i.mainRepoGitDir,
          AwsCredentialMap(h.env, i.cfg.Credentials.aws, h.credentialProcess), iter)

\* Run step 8 and 9: overlay decision, argument vector, `run -d`.  The
\* runtime refuses a name that is in use and an image it cannot find.
StartContainer(p) ==
  /\ pc[p] = "startContainer"
  /\ \E credOk \in BOOLEAN, iter \in Perms(OtherAwsKeys(
           AwsCredentialMap(host.env, inv[p].cfg.Credentials.aws, host.credentialProcess))) :
       LET name == inv[p].containerName
           args == PlannedArgs(host, inv[p], iter)
           image == ArgsOf(args, "image")[1].image
           ok == containers[name].st = "absent" /\ image \in images
           id == NewContainerId(host, name, inv[p].seq)
       IN IF needsCredentialOverlay(host) /\ ~credOk
          THEN /\ pc' = [pc EXCEPT ![p] = "done"]
               /\ out' = [out EXCEPT ![p] = Failed("CredentialFileFailed")]
               /\ UNCHANGED <<containers, credFile, inv, log>>
          ELSE /\ credFile' = IF needsCredentialOverlay(host)
                              THEN CredentialFileAfter(host, credFile) ELSE credFile
               /\ log' = [log EXCEPT ![p] =
                            @ \o (IF needsCredentialOverlay(host)
                                  THEN getOrCreateContainerCredentialFile(name, host, credFile).writes
                                  ELSE <<>>)
                              \o <<[op |-> "run", tgt |-> name, ok |-> ok, args |-> args]>>]
               /\ IF ok
                  THEN /\ containers' = [containers EXCEPT ![name] =
                                           [st |-> "running", id |-> id,
                                            status |-> Str("Up"), args |-> args,
                                            by |-> p]]
                       /\ inv' = [inv EXCEPT ![p].containerID = id]
                       /\ pc' = [pc EXCEPT ![p] = "mkdirs"]
                       /\ UNCHANGED out
                  ELSE /\ pc' = [pc EXCEPT ![p] = "done"]
                       /\ out' = [out EXCEPT ![p] = Failed("ContainerCreateFailed")]
                       /\ UNCHANGED <<containers, inv>>
  /\ UNCHANGED <<host, images, worktrees, runs, configFile, upd, plan>>

\* generateDirectoryCreationCommands: mkdir -p of the parent directory, unless
\* the parent is the root
generateDirectoryCreationCommands(hostPath) ==
  IF Dir(hostPath) # Root THEN <<<<"mkdir", "-p", Dir(hostPath)>>>> ELSE <<>>

\* can a command be executed in the container with this id?
CanExec(cs, id) == \E n \in Addressed(cs, id) : cs[n].st = "running"

\* Run step 10: create the parent directories of mount_path in the container;
\* a failure removes the container
MkDirs(p) ==
  /\ pc[p] = "mkdirs"
  /\ IF generateDirectoryCreationCommands(inv[p].mountPath) = <<>>
     THEN /\ pc' = [pc EXCEPT ![p] = "copyClaude"]
          /\ UNCHANGED <<log, inv>>
     ELSE \E ok \in {TRUE, FALSE} :
          /\ ok => CanExec(containers, inv[p].containerID)
          /\ log' = [log EXCEPT ![p] = @ \o <<Cmd("exec mkdir", inv[p].containerID, ok)>>]
          /\ pc' = [pc EXCEPT ![p] = IF ok THEN "copyClaude" ELSE "rollback"]
          /\ inv' = [inv EXCEPT ![p].pending = IF ok THEN @ ELSE "mkdir"]
  /\ UNCHANGED <<host, containers, images, worktrees, credFile, out, runs, configFile,
                 upd, plan>>

\* copyFileToContainer: the commands it issues and whether it returns an
\* error.  Apple Container: copyFileViaExec, which always fails.  docker and
\* podman: exec mkdir -p, cp, exec chown; a failed chown is only a warning.
copyFileToContainer(h, id, mkdirOk, cpOk, chownOk) ==
  IF h.runtime = "container" THEN [cmds |-> <<>>, ok |-> FALSE]
  ELSE IF ~mkdirOk THEN [cmds |-> <<Cmd("exec mkdir", id, FALSE)>>, ok |-> FALSE]
  ELSE IF ~cpOk THEN [cmds |-> <<Cmd("exec mkdir", id, TRUE), Cmd("cp", id, FALSE)>>,
                      ok |-> FALSE]
  ELSE [cmds |-> <<Cmd("exec mkdir", id, TRUE), Cmd("cp", id, TRUE),
                   Cmd("exec chown", id, chownOk)>>, ok |-> TRUE]

\* Run step 11, "Copy ~/.claude.json": a failure removes the container
CopyClaude(p) ==
  /\ pc[p] = "copyClaude"
  /\ IF ~host.claudeJson
     THEN /\ pc' = [pc EXCEPT ![p] = "seedCreds"]
          /\ UNCHANGED <<log, inv>>
     ELSE \E mkdirOk, cpOk, chownOk \in BOOLEAN :
          LET r == copyFileToContainer(host, inv[p].containerID, mkdirOk, cpOk, chownOk) IN
          /\ (mkdirOk /\ cpOk) => CanExec(containers, inv[p].containerID)
          /\ (~mkdirOk => cpOk) /\ (~(mkdirOk /\ cpOk) => chownOk)
          /\ log' = [log EXCEPT ![p] = @ \o r.cmds]
          /\ pc' = [pc EXCEPT ![p] = IF r.ok THEN "seedCreds" ELSE "rollback"]
          /\ inv' = [inv EXCEPT ![p].pending = IF r.ok THEN @ ELSE "copy"]
  /\ UNCHANGED <<host, containers, images, worktrees, credFile, out, runs, configFile,
                 upd, plan>>

\* Run, "Copy container-managed credentials into place": is the seeding
\* command issued?
SeedsCredentials(h) == h.credSize = -1

\* a variant in which a failed seeding command aborts the invocation
SeedFailureAborts == TRUE

\* what Run does when the seeding command fails
SeedFailureIsFatal == FALSE

\* Run step 11, second half: exec cp of the credentials inside the container
\* when the host has no .credentials.json
SeedCreds(p) ==
  /\ pc[p] = "seedCreds"
  /\ IF ~SeedsCredentials(host)
     THEN /\ pc' = [pc EXCEPT ![p] = "exec"]
          /\ UNCHANGED <<log, inv>>
     ELSE \E ok \in BOOLEAN :
          /\ ok => CanExec(containers, inv[p].containerID)
          /\ log' = [log EXCEPT ![p] = @ \o <<Cmd("exec cp", inv[p].containerID, ok)>>]
          /\ pc' = [pc EXCEPT ![p] = IF ~ok /\ SeedFailureIsFatal THEN "rollback" ELSE "exec"]
          /\ inv' = [inv EXCEPT ![p].pending = IF ~ok /\ SeedFailureIsFatal THEN "seed" ELSE @]
  /\ UNCHANGED <<host, containers, images, worktrees, credFile, out, runs, configFile,
                 upd, plan>>

\* Run's rollback after a failed setup step: rm -f <containerID>, then the error
Rollback(p) ==
  /\ pc[p] = "rollback"
  /\ LET hit == Addressed(containers, inv[p].containerID) IN
     /\ containers' = [n \in DOMAIN containers |->
                         IF n \in hit THEN NoContainer ELSE containers[n]]
     /\ log' = [log EXCEPT ![p] = @ \o <<Cmd("rm -f", inv[p].containerID, hit # {})>>]
  /\ out' = [out EXCEPT ![p] = [kind |-> "error", err |-> "PostStartSetupFailed",
                                step |-> inv[p].pending]]
  /\ pc' = [pc EXCEPT ![p] = "done"]
  /\ UNCHANGED <<host, images, worktrees, credFile, inv, runs, configFile, upd, plan>>

\* Run step 11, "Exec into container with user's command": replace the
\* process by exec -it -w <workingDir> <containerID> <command>
ExecUser(p) ==
  /\ pc[p] = "exec"
  /\ log' = [log EXCEPT ![p] = @ \o <<Cmd("execve", inv[p].containerID, TRUE)>>]
  /\ out' = [out EXCEPT ![p] =
               [kind |-> "exec",
                exec |-> ExecArgs(workingDir(inv[p].mountPath), inv[p].containerID,
                                  inv[p].cfg.Command)]]
  /\ pc' = [pc EXCEPT ![p] = "done"]
  /\ UNCHANGED <<host, containers, images, worktrees, credFile, inv, runs, configFile,
                 upd, plan>>

\* a running container stops: its keepalive command ends, or somebody runs
\* `stop` on it
ContainerStops(n) ==
  /\ containers[n].st = "running"
  /\ containers' = [containers EXCEPT ![n].st = "stopped", ![n].status = Str("Exited")]
  /\ UNCHANGED <<host, images, worktrees, credFile, inv, pc, log, out, runs, configFile,
                 upd, plan>>

\* ------------------------------------------------- Run (workspace revision)
\* pkg/runner/runner.go: the workspace is mounted at /workspace, the user
\* of the image is validated before the container is created, the labels
\* carry no launch information.

\* Run, "Mount .claude directory" to "Mount .npmrc file" of runner.go
RunnerMountArgs(h, remoteUser, mountPath, mainRepoGitDir, creds) ==
  <<Mount(HomeDir \o <<Str(".claude")>>, InHome(remoteUser, <<Str(".claude")>>), FALSE)>>
  \o Opt(needsCredentialOverlay(h),
         Mount(CredentialFilePath, InHome(remoteUser, hostCredFile), FALSE))
  \o <<Mount(mountPath, <<Str("workspace")>>, FALSE)>>
  \o AgentMounts(agentConfigDirs, h, remoteUser)
  \o Opt(fileExists(h, <<Str(".config"), Str("amp")>>),
         Mount(HomeDir \o <<Str(".config"), Str("amp")>>,
               InHome(remoteUser, <<Str(".config"), Str("amp")>>), FALSE))
  \o Opt(mainRepoGitDir # Root, Mount(mainRepoGitDir, mainRepoGitDir, FALSE))
  \o Opt(creds.git /\ fileExists(h, <<Str(".gitconfig")>>),
         Mount(HomeDir \o <<Str(".gitconfig")>>, InHome(remoteUser, <<Str(".gitconfig")>>),
               TRUE))
  \o Opt(creds.ssh /\ fileExists(h, <<Str(".ssh")>>),
         Mount(HomeDir \o <<Str(".ssh")>>, InHome(remoteUser, <<Str(".ssh")>>), TRUE))
  \o Opt(creds.gh /\ h.isLinux /\ fileExists(h, <<Str(".config"), Str("gh")>>),
         Mount(HomeDir \o <<Str(".config"), Str("gh")>>,
               InHome(remoteUser, <<Str(".config"), Str("gh")>>), FALSE))
  \o Opt(creds.gpg /\ fileExists(h, <<Str(".gnupg")>>),
         Mount(HomeDir \o <<Str(".gnupg")>>, InHome(remoteUser, <<Str(".gnupg")>>), TRUE))
  \o Opt(creds.npm /\ fileExists(h, <<Str(".npmrc")>>),
         Mount(HomeDir \o <<Str(".npmrc")>>, InHome(remoteUser, <<Str(".npmrc")>>), TRUE))

\* the argument vector of `run -d` in runner.go
RunnerArgs(h, i) ==
  <<[f |-> "run", d |-> TRUE, it |-> ~isApple(h)],
    [f |-> "--label", labels |-> i.labels],
    [f |-> "--name", name |-> i.containerName]>>
  \o RunnerMountArgs(h, i.devConfig.RemoteUser, i.mountPath, i.mainRepoGitDir,
                     i.cfg.Credentials)
  \o <<[f |-> "-w", dir |-> <<Str("workspace")>>]>>
  \o PassThrough(safeEnvVars, h.env)
  \o <<EnvArg("HOME", PathString(<<Str("home"), i.devConfig.RemoteUser>>)),
       EnvArg("IS_SANDBOX", <<"1">>)>>
  \o PassThrough(i.cfg.DefaultEnvVars, h.env)
  \o UserEnv(i.cfg.Env, h.env)
  \o <<[f |-> "image", image |-> imageName(i.devConfig, Base(i.workDir))],
       [f |-> "cmd", argv |-> <<"sleep", "infinity">>]>>

\* Run steps 1 to 3 of runner.go; the labels are GenerateLabels
RunnerStart(p) ==
  /\ pc[p] \in {"idle", "done"}
  /\ runs < MaxRuns
  /\ \E cfg \in {c \in CliConfigs : c.HostPath = Empty} :
       LET i == Invocation(host, cfg, worktrees)
           exists == WorktreeExists(worktrees, i.worktreeName)
       IN /\ inv' = [inv EXCEPT ![p] = [i EXCEPT !.seq = runs + 1]]
          /\ worktrees' = IF cfg.NoWorktree \/ exists THEN worktrees
                          ELSE [w \in DOMAIN worktrees \cup {i.worktreeName} |->
                                  IF w = i.worktreeName THEN i.mountPath ELSE worktrees[w]]
  /\ pc' = [pc EXCEPT ![p] = "ensureImage"]
  /\ out' = [out EXCEPT ![p] = NoResult]
  /\ runs' = runs + 1
  /\ log' = [log EXCEPT ![p] = <<>>]
  /\ UNCHANGED <<host, containers, images, credFile, configFile, upd, plan>>

\* Run step 5 of runner.go
RunnerEnsureImage(p) == EnsureImageThen(p, "validate")

\* the error validateUserExistsInImage returns, with its remediation guidance
UserNotInImage(username, image) ==
  [kind |-> "error", err |-> "UserNotInImage",
   msg |-> <<<<"user '">> \o username \o <<"' does not exist in image ">> \o image,
             <<"To fix this, either:">>,
             <<"1. Use an image that has the '">> \o username \o <<"' user">>,
             <<"2. Set 'default_user' in config.json to match your image's username">>,
             <<"3. Configure 'remoteUser' in your project's devcontainer.json">>,
             <<"4. Build a custom image with the required user">>>>]

\* a variant that skips the validation: every user passes
UserAssumedInImage(h, imgs, image, username) == TRUE

\* does `run --rm --entrypoint id <image> -u <username>` succeed?  The image
\* has to be there and to have the user.
UserExistsInImage(h, imgs, image, username) == image \in imgs /\ username \in h.imageUsers

\* Run step 5.5 of runner.go, validateUserExistsInImage: id -u <remote_user> in
\* the image that `run` is going to use
ValidateUser(p) ==
  /\ pc[p] = "validate"
  /\ \E answered \in BOOLEAN :
       LET image == imageName(inv[p].devConfig, Base(inv[p].workDir))
           username == inv[p].devConfig.RemoteUser
           ok == answered /\ UserExistsInImage(host, images, image, username)
       IN /\ log' = [log EXCEPT ![p] = @ \o <<[op |-> "run --rm id", tgt |-> image,
                                               ok |-> ok, user |-> username]>>]
          /\ pc' = [pc EXCEPT ![p] = IF ok THEN "checkRunning" ELSE "done"]
          /\ out' = [out EXCEPT ![p] = IF ok THEN @ ELSE UserNotInImage(username, image)]
  /\ UNCHANGED <<host, containers, images, worktrees, credFile, inv, runs, configFile,
                 upd, plan>>

\* Run step 7 of runner.go, container running and no reconnect: the error
\* with the reconnect and the stop command
RunnerConflict(p) ==
  /\ pc[p] = "conflict"
  /\ LET flag == IF inv[p].worktreeName # NoWorktreeName
                 THEN <<" --worktree=">> \o inv[p].worktreeName ELSE Empty
     IN out' = [out EXCEPT ![p] =
                  [kind |-> "error", err |-> "ContainerConflict",
                   msg |-> <<<<"container already running for this worktree">>,
                             <<App, " run">> \o flag \o <<" --reconnect ">>
                               \o CommandString(inv[p].cfg.Command),
                             <<App, " stop">> \o flag>>]]
  /\ pc' = [pc EXCEPT ![p] = "done"]
  /\ UNCHANGED <<host, containers, images, worktrees, credFile, inv, log, runs, configFile,
                 upd, plan>>

\* Run step 7 of runner.go, reconnect: getContainerID and exec -w /workspace
RunnerReconnect(p) ==
  /\ pc[p] = "getID"
  /\ \E ok \in BOOLEAN :
       LET found == host.runtime # "container"
                    \/ containers[inv[p].containerName].st # "absent"
       IN /\ log' = [log EXCEPT ![p] = @ \o <<Cmd("ps", inv[p].containerName, ok)>>
                                         \o (IF ok /\ found
                                             THEN <<Cmd("execve", inv[p].containerName, TRUE)>>
                                             ELSE <<>>)]
          /\ IF ok /\ found
             THEN \E id \in ContainerIdOutputs(host, containers, inv[p].containerName) :
                    /\ inv' = [inv EXCEPT ![p].containerID = id]
                    /\ out' = [out EXCEPT ![p] =
                                 [kind |-> "exec",
                                  exec |-> ExecArgs(<<Str("workspace")>>, id,
                                                    inv[p].cfg.Command)]]
             ELSE /\ out' = [out EXCEPT ![p] = Failed("ContainerIdFailed")]
                  /\ UNCHANGED inv
  /\ pc' = [pc EXCEPT ![p] = "done"]
  /\ UNCHANGED <<host, containers, images, worktrees, credFile, runs, configFile, upd, plan>>

\* Run steps 8 and 9 of runner.go: overlay decision, argument vector, `run -d`
RunnerStartContainer(p) ==
  /\ pc[p] = "startContainer"
  /\ \E credOk \in BOOLEAN :
       LET name == inv[p].containerName
           args == RunnerArgs(host, inv[p])
           image == ArgsOf(args, "image")[1].image
           ok == containers[name].st = "absent" /\ image \in images
           id == NewContainerId(host, name, inv[p].seq)
       IN IF needsCredentialOverlay(host) /\ ~credOk
          THEN /\ pc' = [pc EXCEPT ![p] = "done"]
               /\ out' = [out EXCEPT ![p] = Failed("CredentialFileFailed")]
               /\ UNCHANGED <<containers, credFile, inv, log>>
          ELSE /\ credFile' = IF needsCredentialOverlay(host)
                              THEN CredentialFileAfter(host, credFile) ELSE credFile
               /\ log' = [log EXCEPT ![p] =
                            @ \o (IF needsCredentialOverlay(host)
                                  THEN getOrCreateContainerCredentialFile(name, host, credFile).writes
                                  ELSE <<>>)
                              \o <<[op |-> "run", tgt |-> name, ok |-> ok, args |-> args]>>]
               /\ IF ok
                  THEN /\ containers' = [containers EXCEPT ![name] =
                                           [st |-> "running", id |-> id,
                                            status |-> Str("Up"), args |-> args,
                                            by |-> p]]
                       /\ inv' = [inv EXCEPT ![p].containerID = id]
                       /\ pc' = [pc EXCEPT ![p] = "copyClaude"]
                       /\ UNCHANGED out
                  ELSE /\ pc' = [pc EXCEPT ![p] = "done"]
                       /\ out' = [out EXCEPT ![p] = Failed("ContainerCreateFailed")]
                       /\ UNCHANGED <<containers, inv>>
  /\ UNCHANGED <<host, images, worktrees, runs, configFile, upd, plan>>

\* Run step 11 of runner.go: exec -it -w /workspace <containerID> <command>
RunnerExec(p) ==
  /\ pc[p] = "exec"
  /\ log' = [log EXCEPT ![p] = @ \o <<Cmd("execve", inv[p].containerID, TRUE)>>]
  /\ out' = [out EXCEPT ![p] =
               [kind |-> "exec",
                exec |-> ExecArgs(<<Str("workspace")>>, inv[p].containerID,
                                  inv[p].cfg.Command)]]
  /\ pc' = [pc EXCEPT ![p] = "done"]
  /\ UNCHANGED <<host, containers, images, worktrees, credFile, inv, runs, configFile,
                 upd, plan>>

\* ------------------------------------------------------ configuration store
\* the fields of config.Config, by their JSON keys
KnownKeys == {"container_runtime", "default_image", "default_credentials",
              "default_env_vars", "env_configs", "default_container"}

\* a key of config.json that config.Config does not model
UnknownKey == "experimental"

\* the zero value json.Unmarshal leaves in a field the file does not set
ZeroValue == "zero"

\* GetDefaultContainerConfig
GetDefaultContainerConfig == "default-container"

\* config.json on disk: whether it exists, and its top-level keys and values
NoFile == [exists |-> FALSE, fields |-> << >>]

FileWith(fields) == [exists |-> TRUE, fields |-> fields]

\* LoadConfigFromFile: json.Unmarshal into config.Config, which reads the known
\* keys and skips every other key of the file
LoadConfigFromFile(file) ==
  [k \in KnownKeys |-> IF k \in DOMAIN file.fields THEN file.fields[k] ELSE ZeroValue]

\* LoadExistingOrEmpty: an empty Config with the default container settings
\* when the file does not exist
LoadExistingOrEmpty(file) ==
  IF ~file.exists
  THEN [k \in KnownKeys |-> IF k = "default_container" THEN GetDefaultContainerConfig
                            ELSE ZeroValue]
  ELSE LoadConfigFromFile(file)

\* SaveConfig: json.MarshalIndent of the Config, written over the file
SaveConfig(cfg, file) == FileWith(cfg)

\* UpdateConfigSafely, "Apply updates only to specified fields"
ApplyUpdates(cfg, updates) ==
  [k \in DOMAIN cfg |-> IF k \in DOMAIN updates THEN updates[k] ELSE cfg[k]]

\* the fields ConfigUpdates can carry
UpdateKeys == {"container_runtime", "default_credentials", "default_container"}

\* the partial updates of the model: one or two fields, new values
UpdateSets ==
  {u \in UNION {[K -> {"new-a", "new-b"}] : K \in SUBSET UpdateKeys} :
     DOMAIN u # {} /\ Cardinality(DOMAIN u) <= 2}

Updaters == {1, 2}

IdleUpdate == [pc |-> "idle", n |-> 0, updates |-> << >>, cfg |-> << >>, seen |-> NoFile]

\* UpdateConfigSafely, first half: load the existing config
UpdateLoad(u) ==
  /\ upd[u].pc \in {"idle", "done"}
  /\ upd[1].n + upd[2].n < MaxUpdates
  /\ \E updates \in UpdateSets :
       upd' = [upd EXCEPT ![u] = [pc |-> "loaded", n |-> @.n + 1, updates |-> updates,
                                  cfg |-> LoadExistingOrEmpty(configFile),
                                  seen |-> configFile]]
  /\ UNCHANGED <<runVars, configFile, plan>>

\* a variant of the save that reads the file again, as under a file lock
UpdateSaveFresh(u) ==
  /\ upd[u].pc = "loaded"
  /\ configFile' = SaveConfig(ApplyUpdates(LoadExistingOrEmpty(configFile),
                                           upd[u].updates), configFile)
  /\ upd' = [upd EXCEPT ![u].pc = "done"]
  /\ UNCHANGED <<runVars, plan>>

\* UpdateConfigSafely, second half: apply the updates and save
UpdateSave(u) ==
  /\ upd[u].pc = "loaded"
  /\ configFile' = SaveConfig(ApplyUpdates(upd[u].cfg, upd[u].updates), configFile)
  /\ upd' = [upd EXCEPT ![u].pc = "done"]
  /\ UNCHANGED <<runVars, plan>>

\* the config.json files the model starts from: none, one with the known
\* fields, one that also has an unknown field
InitialConfigFiles ==
  {NoFile, FileWith([k \in KnownKeys |-> "old"]),
   FileWith([k \in KnownKeys \cup {UnknownKey} |-> "old"])}

\* ----------------------------------------------------------------- hosts
\* the hosts of the lifecycle specifications
LifecycleHosts ==
  [runtime : {"docker", "container"}, isLinux : BOOLEAN, credSize : {-1, 5, 20},
   claudeJson : BOOLEAN, devcontainer : {"none", "dockerfile"}, keychain : {FALSE},
   files : {{<<Str(".codex")>>, <<Str(".gitconfig")>>, <<Str(".config"), Str("gh")>>}},
   links : {<< >>}, env : {[TERM |-> Str("xterm")]},
   credentialProcess : {[ok |-> FALSE, AccessKeyID |-> Empty, SecretAccessKey |-> Empty,
                         SessionToken |-> Empty]}]

\* Apple Container exists on macOS only; the project with a Dockerfile is
\* tried on one host
RealHosts ==
  {h \in LifecycleHosts :
     /\ h.runtime = "container" => ~h.isLinux
     /\ h.devcontainer = "dockerfile" =>
          h.runtime = "docker" /\ h.isLinux /\ h.credSize = -1 /\ h.claudeJson}

\* the host of the specifications that start no container
QuietHost ==
  CHOOSE h \in RealHosts :
    h.runtime = "docker" /\ h.isLinux /\ h.credSize = 20 /\ h.claudeJson
    /\ h.devcontainer = "none"

IdleInv == [cfg |-> << >>, containerID |-> Empty, pending |-> "none", running |-> "unchecked"]

\* no container, no image, no invocation
NoRuns ==
  /\ containers = [n \in AllNames |-> NoContainer]
  /\ images = {}
  /\ worktrees = (CurrentBranch :> WorkDir)
  /\ credFile = "absent"
  /\ inv = [p \in Procs |-> IdleInv]
  /\ pc = [p \in Procs |-> "idle"]
  /\ log = [p \in Procs |-> <<>>]
  /\ out = [p \in Procs |-> NoResult]
  /\ runs = 0

\* an earlier session may have left a container running: the one Run creates
\* for the worktree f/2 on a host without a devcontainer.json
EarlierInvocation(h) ==
  Invocation(h, CHOOSE c \in CliConfigs :
                    c.Worktree = <<"f", "/", "2">> /\ ~c.Reconnect /\ c.HostPath = Empty,
             CurrentBranch :> WorkDir)

EarlierContainer(h) ==
  [st |-> "running", id |-> Str("id0"), status |-> Str("Up"),
   args |-> PlannedArgs(h, EarlierInvocation(h), <<>>), by |-> 0]

\* another project directory with the same base name
OtherDir == <<Str("srv"), Str("p")>>

\* the same invocation made in the other project directory, by a command line
\* that records its launch: same base name and worktree, hence the same
\* container name
ElsewhereInvocation(h) ==
  LET e == EarlierInvocation(h) IN
  [e EXCEPT !.workDir = OtherDir,
            !.mainRepoGitDir = OtherDir \o <<Str(".git")>>,
            !.labels = GenerateLabelsWithLaunchInfo(Base(OtherDir), e.worktreeName,
                                                    PathString(OtherDir),
                                                    <<"run", " ", "claude">>)]

ElsewhereContainer(h) ==
  [st |-> "running", id |-> Str("id0"), status |-> Str("Up"),
   args |-> PlannedArgs(h, ElsewhereInvocation(h), <<>>), by |-> 0]

InitRun ==
  /\ \E earlier \in BOOLEAN, elsewhere \in BOOLEAN :
       LET e == EarlierInvocation(host) IN
       /\ earlier => host.devcontainer = "none"
       /\ elsewhere => earlier /\ host = QuietHost
       /\ containers = [n \in AllNames |->
                          IF earlier /\ n = e.containerName
                          THEN IF elsewhere THEN ElsewhereContainer(host)
                               ELSE EarlierContainer(host)
                          ELSE NoContainer]
       /\ images = IF earlier THEN {e.devConfig.Image} ELSE {}
       /\ worktrees = IF earlier
                      THEN (CurrentBranch :> WorkDir) @@ (e.worktreeName :> e.mountPath)
                      ELSE (CurrentBranch :> WorkDir)
       /\ credFile = IF earlier /\ needsCredentialOverlay(host) THEN "refreshed" ELSE "absent"
  /\ inv = [p \in Procs |-> IdleInv]
  /\ pc = [p \in Procs |-> "idle"]
  /\ log = [p \in Procs |-> <<>>]
  /\ out = [p \in Procs |-> NoResult]
  /\ runs = 0

InitConfig ==
  /\ configFile = NoFile
  /\ upd = [u \in Updaters |-> IdleUpdate]

InitPlan == plan = [in |-> << >>, first |-> <<>>, second |-> <<>>, built |-> 0, steps |-> <<>>]

\* the lifecycle of Run invocations
Init ==
  /\ host \in RealHosts
  /\ InitRun /\ InitConfig /\ InitPlan

Next ==
  \/ \E p \in Procs : Start(p)
  \/ \E p \in Procs : EnsureImage(p)
  \/ \E p \in Procs : CheckRunning(p)
  \/ \E p \in Procs : Conflict(p)
  \/ \E p \in Procs : GetID(p)
  \/ \E p \in Procs : RmStale(p)
  \/ \E p \in Procs : StartContainer(p)
  \/ \E p \in Procs : MkDirs(p)
  \/ \E p \in Procs : CopyClaude(p)
  \/ \E p \in Procs : SeedCreds(p)
  \/ \E p \in Procs : Rollback(p)
  \/ \E p \in Procs : ExecUser(p)
  \/ \E n \in AllNames : ContainerStops(n)

Spec == Init /\ [][Next]_vars

\* the hosts of the workspace revision: the users the images have are a fact
\* of the host
RunnerHosts ==
  {[h EXCEPT !.imageUsers = us] :
     h \in {k \in [runtime : {"docker", "container"}, isLinux : BOOLEAN,
                   credSize : {-1, 20}, claudeJson : {TRUE},
                   devcontainer : {"none", "dockerfile"}, keychain : {FALSE},
                   files : {{<<Str(".codex")>>, <<Str(".gitconfig")>>}},
                   links : {<< >>}, env : {[TERM |-> Str("xterm")]},
                   imageUsers : {{}}] :
              k.runtime = "container" => ~k.isLinux},
     us \in {{}, {Str("vscode")}, {Str("vscode"), Str("dev")}}}

InitRunner ==
  /\ host \in RunnerHosts
  /\ NoRuns
  /\ InitConfig /\ InitPlan

NextRunner ==
  \/ \E p \in Procs : RunnerStart(p)
  \/ \E p \in Procs : RunnerEnsureImage(p)
  \/ \E p \in Procs : ValidateUser(p)
  \/ \E p \in Procs : CheckRunning(p)
  \/ \E p \in Procs : RunnerConflict(p)
  \/ \E p \in Procs : RunnerReconnect(p)
  \/ \E p \in Procs : RmStale(p)
  \/ \E p \in Procs : RunnerStartContainer(p)
  \/ \E p \in Procs : CopyClaude(p)
  \/ \E p \in Procs : SeedCreds(p)
  \/ \E p \in Procs : Rollback(p)
  \/ \E p \in Procs : RunnerExec(p)
  \/ \E n \in AllNames : ContainerStops(n)

\* the lifecycle of Run invocations of runner.go
SpecRunner == InitRunner /\ [][NextRunner]_vars

\* ------------------------------------------------ properties of the lifecycle
\* the lines of a message
Lines(msg) == {msg[i] : i \in 1..Len(msg)}

HasPrefix(s, pre) == Len(s) >= Len(pre) /\ SubSeq(s, 1, Len(pre)) = pre

\* invocation p has issued a command with one of these operations
Issued(p, ops) == \E i \in 1..Len(log[p]) : log[p][i].op \in ops

\* a command of invocation p with one of these operations has failed
CommandFailed(p, ops) == \E i \in 1..Len(log[p]) : log[p][i].op \in ops /\ ~log[p][i].ok

\* every listing the runtime supports was answered (Apple Container has no
\* `ps --filter`, which the listing of the details uses)
ListingsAnswered(p) ==
  \A i \in 1..Len(log[p]) :
    /\ log[p][i].op = "ps" => log[p][i].ok
    /\ log[p][i].op = "ps json" => (log[p][i].ok \/ host.runtime = "container")

IsConflict(p) == out[p].kind = "error" /\ out[p].err = "ContainerConflict"

IsSetupFailure(p) == out[p].kind = "error" /\ out[p].err = "PostStartSetupFailed"

\* C1: when the container with the invocation's name is running and reconnect
\* was not requested, Run returns a conflict error whose message has the name,
\* status, project, worktree, host path, original launch command, a
\* `run ... --reconnect <command>` line and a `stop <name>` line.
C1_ConflictErrorHasDetails ==
  \A p \in Procs :
    (/\ pc[p] = "done"
     /\ inv[p].running = "yes"
     /\ ~inv[p].cfg.Reconnect
     /\ containers[inv[p].containerName].st = "running"
     /\ ListingsAnswered(p))
    => /\ IsConflict(p)
       /\ LET msg == Lines(out[p].msg)
              name == inv[p].containerName
          IN /\ (<<"Name: ">> \o name) \in msg
             /\ \E l \in msg : HasPrefix(l, <<"Status: ">>) /\ Len(l) > 1
             /\ (<<"Project: ">> \o Base(inv[p].workDir)) \in msg
             /\ (<<"Worktree: ">> \o inv[p].worktreeName) \in msg
             /\ \E l \in msg : HasPrefix(l, <<"Host Path: ">>) /\ Len(l) > 1
             /\ \E l \in msg : HasPrefix(l, <<"Original Command: ">>) /\ Len(l) > 1
             /\ \E l \in msg : /\ HasPrefix(l, <<App, " run">>)
                               /\ Contains(l, <<" --reconnect ">>
                                              \o CommandString(inv[p].cfg.Command))
             /\ (<<App, " stop ">> \o name) \in msg

\* C2: when the container of the identity is running and reconnect was
\* requested, Run resolves the container id and ends in the exec of the user
\* command in that container, and issues no run, rm, cp or other command that
\* changes the container.
C2_ReconnectOnlyExecs ==
  \A p \in Procs :
    (/\ pc[p] = "done"
     /\ inv[p].running = "yes"
     /\ inv[p].cfg.Reconnect
     /\ ListingsAnswered(p))
    => /\ out[p].kind = "exec"
       /\ out[p].exec.command = inv[p].cfg.Command
       /\ ~Issued(p, {"run", "rm", "rm -f", "cp", "exec cp", "exec mkdir", "exec chown"})

C4_RmBeforeRun ==
  \A p \in Procs :
    /\ \A j \in 1..Len(log[p]) :
         log[p][j].op = "run"
         => \E i \in 1..(j - 1) :
              log[p][i].op = "rm" /\ log[p][i].tgt = inv[p].containerName
    /\ (/\ pc[p] = "done"
        /\ inv[p].running = "no"
        /\ ~(out[p].kind = "error" /\ out[p].err = "CredentialFileFailed"))
       => \E i, j \in 1..Len(log[p]) :
            /\ i < j
            /\ log[p][i].op = "rm" /\ log[p][i].tgt = inv[p].containerName
            /\ log[p][j].op = "run"

\* an rm that failed, followed by a run that created the container
C4_Witness ==
  \E p \in Procs : \E i, j \in 1..Len(log[p]) :
    /\ i < j
    /\ log[p][i].op = "rm" /\ ~log[p][i].ok
    /\ log[p][j].op = "run" /\ log[p][j].ok

InitStore ==
  /\ host = QuietHost
  /\ NoRuns
  /\ configFile \in InitialConfigFiles
  /\ upd = [u \in Updaters |-> IdleUpdate]
  /\ InitPlan

NextStore ==
  \/ \E u \in Updaters : UpdateLoad(u)
  \/ \E u \in Updaters : UpdateSave(u)

\* partial updates of config.json by two processes
SpecConfig == InitStore /\ [][NextStore]_vars

\* C6: a partial update keeps a field of config.json that the schema does not
\* model: no step removes the field or changes its value.
C6_UnknownFieldPreserved ==
  [][(UnknownKey \in DOMAIN configFile.fields)
     => (UnknownKey \in DOMAIN configFile'.fields
         /\ configFile'.fields[UnknownKey] = configFile.fields[UnknownKey])]_vars

\* C7: a partial update is a read-modify-write of the whole file without a
\* lock: the save writes every field the update does not name with the value
\* read at load time, whatever was written in between; so of two concurrent
\* updates of different fields one can be lost (C7_Witness).
C7_SaveWritesSnapshot ==
  [][\A u \in Updaters :
       (upd[u].pc = "loaded" /\ upd'[u].pc = "done")
       => (/\ configFile'.exists
           /\ \A k \in KnownKeys \ DOMAIN upd[u].updates :
                configFile'.fields[k] = upd[u].cfg[k]
           /\ \A k \in DOMAIN upd[u].updates :
                configFile'.fields[k] = upd[u].updates[k])]_vars

\* two updates of different fields that read the same file have both
\* finished, and the file has the one and not the other
C7_Witness ==
  \E u, v \in Updaters :
    /\ u # v
    /\ upd[u].pc = "done" /\ upd[v].pc = "done"
    /\ upd[u].seen = upd[v].seen
    /\ DOMAIN upd[u].updates \cap DOMAIN upd[v].updates = {}
    /\ \A k \in DOMAIN upd[v].updates : configFile.fields[k] = upd[v].updates[k]
    /\ \A k \in DOMAIN upd[u].updates : configFile.fields[k] # upd[u].updates[k]

\* ------------------------------------------------- the environment plan
\* the variables the host may have set, HOME apart, and their values
EnvNames ==
  {"TERM", "ANTHROPIC_API_KEY", "AWS_PROFILE", "AWS_REGION", "AWS_ACCESS_KEY_ID",
   "AWS_SECRET_ACCESS_KEY", "AWS_CONTAINER_CREDENTIALS_FULL_URI"}

PlanEnvs ==
  {[k \in S \cup {"HOME"} |-> IF k = "HOME" THEN PathString(HomeDir) ELSE <<"host-", k>>] :
     S \in {T \in SUBSET EnvNames : "AWS_SECRET_ACCESS_KEY" \in T => "AWS_ACCESS_KEY_ID" \in T}}

\* --env entries: KEY=value (eq) and KEY
UserEnvEntries ==
  {[key |-> "HOME", eq |-> TRUE, val |-> <<"/x">>],
   [key |-> "IS_SANDBOX", eq |-> TRUE, val |-> <<"0">>],
   [key |-> "AWS_CONTAINER_CREDENTIALS_FULL_URI", eq |-> FALSE, val |-> Empty],
   [key |-> "AWS_REGION", eq |-> TRUE, val |-> <<"eu">>]}

UserEnvLists == UNION {[1..n -> UserEnvEntries] : n \in 0..MaxEnv}

\* the profile the host names in AWS_PROFILE
HostProfile == <<"host-", "AWS_PROFILE">>

\* the AWS config files of the model: none, one without the profile, one whose
\* profile has no credential_process, one whose profile has the directive
AwsConfigFiles ==
  {NoAwsConfig,
   [exists |-> TRUE, profiles |-> (<<"other">> :> <<"creds">>)],
   [exists |-> TRUE, profiles |-> (HostProfile :> Empty)],
   [exists |-> TRUE, profiles |-> (HostProfile :> <<"creds">>)]}

\* what the credential process does when it is executed: it succeeds with or
\* without a session token, hangs, exits with an error, prints no JSON, or
\* prints JSON that lacks a required field
Quick(json, ak, sk, tok) ==
  [seconds |-> 1, exit |-> 0, json |-> json, AccessKeyId |-> ak, SecretAccessKey |-> sk,
   SessionToken |-> tok]

ProcessBehaviours ==
  {Quick(TRUE, <<"AK">>, <<"SK">>, Empty), Quick(TRUE, <<"AK">>, <<"SK">>, <<"TK">>),
   [Quick(TRUE, <<"AK">>, <<"SK">>, Empty) EXCEPT !.seconds = 30],
   [Quick(FALSE, Empty, Empty, Empty) EXCEPT !.exit = 1],
   Quick(FALSE, Empty, Empty, Empty),
   Quick(TRUE, Empty, <<"SK">>, Empty), Quick(TRUE, <<"AK">>, Empty, <<"TK">>)}

\* config file and process together; the process matters only when the file
\* has the directive
AwsScenarios ==
  {sc \in [awsConfig : AwsConfigFiles, beh : ProcessBehaviours] :
     \/ ParseAWSConfig(sc.awsConfig, HostProfile).ok
     \/ sc.beh = Quick(TRUE, <<"AK">>, <<"SK">>, Empty)}

PlanInputs ==
  [env : PlanEnvs, awsOn : BOOLEAN,
   defaultEnvVars : {<<"ANTHROPIC_API_KEY">>, <<"ANTHROPIC_API_KEY", "HOME">>},
   userEnv : UserEnvLists, aws : AwsScenarios, remoteUser : {Str("vscode")}]

\* the outcome of the credential process step for the inputs i
ProcOf(i) == CredentialProcess(i.aws.awsConfig, Getenv(i.env, "AWS_PROFILE"), i.aws.beh)

\* Run, "AWS credentials handling" and "Add environment variables", for the
\* inputs i and the map iteration order iter
PlanEnv(i, iter) ==
  EnvArgs(i.env, i.remoteUser, i.defaultEnvVars, i.awsOn,
          AwsCredentialMap(i.env, i.awsOn, ProcOf(i)), iter, i.userEnv)

\* the orders in which the Go runtime may iterate over awsCredentials
IterOrders(i) == Perms(OtherAwsKeys(AwsCredentialMap(i.env, i.awsOn, ProcOf(i))))

\* a first invocation builds its env list
BuildFirst ==
  /\ plan.built = 0
  /\ \E iter \in IterOrders(plan.in) :
       plan' = [plan EXCEPT !.first = PlanEnv(plan.in, iter), !.built = 1,
                            !.steps = AwsSteps(plan.in.env, plan.in.awsOn,
                                               plan.in.aws.awsConfig, plan.in.aws.beh)]
  /\ UNCHANGED <<runVars, configFile, upd>>

\* a second invocation with the same inputs builds its env list
BuildSecond ==
  /\ plan.built = 1
  /\ \E iter \in IterOrders(plan.in) :
       plan' = [plan EXCEPT !.second = PlanEnv(plan.in, iter), !.built = 2]
  /\ UNCHANGED <<runVars, configFile, upd>>

InitPlanner ==
  /\ host = QuietHost
  /\ NoRuns
  /\ InitConfig
  /\ plan \in {[in |-> i, first |-> <<>>, second |-> <<>>, built |-> 0, steps |-> <<>>] :
                 i \in PlanInputs}

NextPlanner == BuildFirst \/ BuildSecond

\* the env list of the run argument vector, over the inputs of an invocation
SpecPlan == InitPlanner /\ [][NextPlanner]_vars

\* the names of the AWS variables of the model that are no credential keys, in
\* sorted order
SortedOtherNames == <<"AWS_PROFILE", "AWS_REGION">>

\* the keys of the set S in sorted order
SortedOrder(S) == SelectSeq(SortedOtherNames, LAMBDA k : k \in S)

\* the number of entries of an env list for the variable key
Count(envs, key) == Cardinality({j \in 1..Len(envs) : envs[j].k = key})

\* the terminal and locale variables that are set on the host
SafeOnHost(env) == {k \in SafeSet : Getenv(env, k) # Empty}

\* C9: the env entries come in the order terminal/locale, HOME, IS_SANDBOX,
\* default pass-through, AWS credentials, the other AWS variables sorted by
\* name, user --env; and two invocations with the same inputs build the same
\* env list.
C9_EnvOrderDeterministic ==
  /\ plan.built >= 1
     => plan.first = PlanEnv(plan.in, SortedOrder(OtherAwsKeys(
                        AwsCredentialMap(plan.in.env, plan.in.awsOn, ProcOf(plan.in)))))
  /\ plan.built = 2 => plan.first = plan.second

\* C10, as the code has it: the env list begins with the terminal/locale
\* variables that are set on the host, directly followed by HOME=/home/<user>
\* and IS_SANDBOX=1; these are the only entries for HOME and IS_SANDBOX unless
\* the default pass-through list or a --env entry names the variable, and a
\* --env KEY=value for one of them always adds a further entry.
C10_EnvHead ==
  plan.built >= 1 =>
    LET i == plan.in
        n == Cardinality(SafeOnHost(i.env))
        named(key) == (\E j \in 1..Len(i.defaultEnvVars) : i.defaultEnvVars[j] = key)
                      \/ (\E j \in 1..Len(i.userEnv) : i.userEnv[j].key = key)
        forced(key) == \E j \in 1..Len(i.userEnv) : i.userEnv[j].key = key /\ i.userEnv[j].eq
    IN /\ Len(plan.first) >= n + 2
       /\ \A j \in 1..n : /\ plan.first[j].k \in SafeOnHost(i.env)
                          /\ plan.first[j].v = i.env[plan.first[j].k]
       /\ plan.first[n + 1] = EnvArg("HOME", <<"/", "home", "/">> \o i.remoteUser)
       /\ plan.first[n + 2] = EnvArg("IS_SANDBOX", <<"1">>)
       /\ \A key \in {"HOME", "IS_SANDBOX"} :
            /\ ~named(key) => Count(plan.first, key) = 1
            /\ forced(key) => Count(plan.first, key) >= 2

\* C10 as stated: whatever the default pass-through list and the --env
\* entries are, the env list begins with the terminal/locale variables and has
\* exactly one HOME and exactly one IS_SANDBOX entry.
C10_ExactlyOneHome ==
  plan.built >= 1 =>
    LET n == Cardinality(SafeOnHost(plan.in.env)) IN
    /\ \A j \in 1..n : plan.first[j].k \in SafeSet
    /\ Count(plan.first, "HOME") = 1
    /\ Count(plan.first, "IS_SANDBOX") = 1

\* a list that begins with TERM and has one HOME and one IS_SANDBOX entry
\* although the invocation has --env entries and AWS variables
C10_Witness ==
  /\ plan.built >= 1
  /\ plan.first[1].k = "TERM"
  /\ Count(plan.first, "HOME") = 1 /\ Count(plan.first, "IS_SANDBOX") = 1
  /\ Len(plan.in.userEnv) = 2
  /\ plan.in.awsOn /\ Count(plan.first, "AWS_PROFILE") = 1

\* ---------------------------------------------- properties of AWS resolution
\* the values the env list gives the variable key, in order
ValuesOf(envs, key) == SelectSeq([j \in 1..Len(envs) |-> IF envs[j].k = key THEN envs[j].v ELSE <<"-">>],
                                 LAMBDA v : v # <<"-">>)

\* both static credential variables are set on the host
BothKeysOnHost(i) ==
  /\ "AWS_ACCESS_KEY_ID" \in DOMAIN i.env
  /\ "AWS_SECRET_ACCESS_KEY" \in DOMAIN i.env

\* the profile of the host has a credential_process directive
HasDirective(i) ==
  /\ i.aws.awsConfig.exists
  /\ HostProfile \in DOMAIN i.aws.awsConfig.profiles
  /\ i.aws.awsConfig.profiles[HostProfile] # Empty

\* the process runs to the end in time and prints JSON with both required fields
ProcessDelivers(i) ==
  /\ i.aws.beh.seconds < 30 /\ i.aws.beh.exit = 0 /\ i.aws.beh.json
  /\ i.aws.beh.AccessKeyId # Empty /\ i.aws.beh.SecretAccessKey # Empty

\* the credential_process step is taken and fails
StepFails(i) ==
  /\ i.awsOn /\ ~BothKeysOnHost(i) /\ "AWS_PROFILE" \in DOMAIN i.env
  /\ ~(HasDirective(i) /\ ProcessDelivers(i))

\* the values a credential process of the model can print
ProcessValues == {<<"AK">>, <<"SK">>, <<"TK">>}

\* C11: with AWS credentials enabled, (1) when both AWS_ACCESS_KEY_ID and
\* AWS_SECRET_ACCESS_KEY are set on the host their host values are what the
\* env list carries and neither the AWS config is parsed nor a credential
\* process executed; (2) otherwise, when AWS_PROFILE is set, the config is
\* parsed for the profile and its credential_process, if it has one, is
\* executed, and when it delivers, its keys are what the env list carries;
\* (3) the host's AWS_* variables are passed through as they are only when
\* neither (1) nor (2) produced credentials.
C11_AwsPriority ==
  (plan.built >= 1 /\ plan.in.awsOn) =>
    LET i == plan.in
        did(step) == \E j \in 1..Len(plan.steps) : plan.steps[j] = step
    IN /\ BothKeysOnHost(i) =>
            /\ ~did("parse") /\ ~did("exec") /\ did("static")
            /\ ValuesOf(plan.first, "AWS_ACCESS_KEY_ID") = <<i.env["AWS_ACCESS_KEY_ID"]>>
            /\ ValuesOf(plan.first, "AWS_SECRET_ACCESS_KEY") = <<i.env["AWS_SECRET_ACCESS_KEY"]>>
       /\ (~BothKeysOnHost(i) /\ "AWS_PROFILE" \in DOMAIN i.env) =>
            /\ did("parse")
            /\ did("exec") = HasDirective(i)
            /\ (HasDirective(i) /\ ProcessDelivers(i)) =>
                 /\ did("process") /\ ~did("fallback")
                 /\ ValuesOf(plan.first, "AWS_ACCESS_KEY_ID") = <<i.aws.beh.AccessKeyId>>
                 /\ ValuesOf(plan.first, "AWS_SECRET_ACCESS_KEY") = <<i.aws.beh.SecretAccessKey>>
       /\ (~BothKeysOnHost(i) /\ "AWS_PROFILE" \notin DOMAIN i.env) =>
            ~did("parse") /\ ~did("exec")
       /\ did("fallback") =>
            /\ ~BothKeysOnHost(i) /\ ~did("process") /\ ~did("static")
            /\ ~("AWS_PROFILE" \in DOMAIN i.env /\ HasDirective(i) /\ ProcessDelivers(i))

\* the host has an access key of its own and a profile whose process delivers:
\* the process is executed and its key replaces the host's
C11_Witness ==
  /\ plan.built >= 1 /\ plan.in.awsOn
  /\ "AWS_ACCESS_KEY_ID" \in DOMAIN plan.in.env /\ ~BothKeysOnHost(plan.in)
  /\ plan.steps = <<"parse", "exec", "process">>
  /\ ValuesOf(plan.first, "AWS_ACCESS_KEY_ID") = <<<<"AK">>>>

C13_NoContainerCredentialVars ==
  plan.built >= 1 =>
    \A j \in 1..Len(plan.first) :
      plan.first[j].k \notin {"AWS_CONTAINER_CREDENTIALS_RELATIVE_URI",
                              "AWS_CONTAINER_CREDENTIALS_FULL_URI"}

\* ------------------------------------------ properties of the credential overlay
\* the position of the successful `run` of invocation p in its log, 0 when
\* there is none
RunAt(p) ==
  IF \E j \in 1..Len(log[p]) : log[p][j].op = "run" /\ log[p][j].ok
  THEN CHOOSE j \in 1..Len(log[p]) : log[p][j].op = "run" /\ log[p][j].ok
  ELSE 0

\* the run argument vector mounts the shared credential file over
\* /home/<remote_user>/.claude/.credentials.json
HasOverlay(args) ==
  \E j \in 1..Len(args) :
    /\ args[j].f = "-v" /\ args[j].src = CredentialFilePath
    /\ args[j].dst = SubSeq(args[j].dst, 1, 2) \o hostCredFile

\* C15: whenever Run has created a container with the overlay mount and goes
\* on to exec the user's command, it has issued the command that seeds
\* /home/<remote_user>/.claude/.credentials.json after `run` and before the
\* exec; this includes the host whose .credentials.json exists with fewer
\* than 20 bytes.
C15_OverlayIsSeeded ==
  \A p \in Procs :
    (out[p].kind = "exec" /\ RunAt(p) # 0 /\ HasOverlay(log[p][RunAt(p)].args))
    => \E j \in (RunAt(p) + 1)..Len(log[p]) : log[p][j].op = "exec cp"

\* ------------------------------------------------------- the mount plan
\* the paths below the home directory that Run looks for
MountSources ==
  {<<Str(".codex")>>, <<Str(".cursor")>>, <<Str(".config"), Str("amp")>>,
   <<Str(".gitconfig")>>, <<Str(".ssh")>>, <<Str(".config"), Str("gh")>>,
   <<Str(".gnupg")>>, <<Str(".npmrc")>>, <<Str(".aws")>>}

\* the sizes of the host's .credentials.json (-1: no such file)
CredSizes == {-1, 0, 5, 19, 20, 21}

\* the hosts of the mount plan: any of the sources may exist, .gitconfig may
\* be a symbolic link
MountHosts ==
  {[QuietHost EXCEPT !.credSize = sz, !.isLinux = lin, !.files = fs, !.links = ln] :
     sz \in CredSizes, lin \in BOOLEAN, fs \in SUBSET MountSources,
     ln \in {<< >>, (<<Str(".gitconfig")>> :> <<Str("dotfiles"), Str("gitconfig")>>)}}

\* the credential toggles of the model
CredentialToggles ==
  {[git |-> g, ssh |-> g, gh |-> h, gpg |-> h, npm |-> g, aws |-> a] :
     g \in BOOLEAN, h \in BOOLEAN, a \in BOOLEAN}

\* the project directory itself, or a worktree together with the .git
\* directory of the main repository
MountTargets ==
  {[mountPath |-> WorkDir, mainRepoGitDir |-> Root],
   [mountPath |-> DetermineWorktreePath(WorkDir, <<"f">>),
    mainRepoGitDir |-> WorkDir \o <<Str(".git")>>]}

\* Run plans the mounts of the container
PlanMounts ==
  /\ plan.built = 0
  /\ plan' = [plan EXCEPT !.first = MountArgs(host, plan.in.remoteUser, plan.in.mountPath,
                                              plan.in.mainRepoGitDir, plan.in.creds),
                          !.built = 1]
  /\ UNCHANGED <<runVars, configFile, upd>>

InitMounts ==
  /\ host \in MountHosts
  /\ NoRuns
  /\ InitConfig
  /\ plan \in {[in |-> [creds |-> c, mountPath |-> t.mountPath,
                        mainRepoGitDir |-> t.mainRepoGitDir, remoteUser |-> Str("vscode")],
                first |-> <<>>, second |-> <<>>, built |-> 0, steps |-> <<>>] :
                 c \in CredentialToggles, t \in MountTargets}

NextMounts == PlanMounts

\* the mounts of the run argument vector, over hosts and configurations
SpecMounts == InitMounts /\ [][NextMounts]_vars

\* C14: the shared credential file is mounted over
\* /home/<remote_user>/.claude/.credentials.json exactly when the host's
\* ~/.claude/.credentials.json does not exist or has fewer than 20 bytes.
C14_OverlayIffSmall ==
  plan.built = 1 => (HasOverlay(plan.first) <=> (host.credSize = -1 \/ host.credSize < 20))

\* a host file of 19 bytes gets the overlay
C14_Witness == plan.built = 1 /\ host.credSize = 19 /\ HasOverlay(plan.first)

\* the place of a mount in the order of the plan: 1 the .claude directory, 2
\* the credential overlay, 3 the identity mount of the workspace, 4 an agent
\* config directory, 5 the .git directory of the main repository, 6 an
\* optional credential mount, 7 the AWS config directory, 0 anything else
MountClass(m, i) ==
  LET rel == SubSeq(m.dst, 3, Len(m.dst))
      inHome == Len(m.dst) >= 3 /\ SubSeq(m.dst, 1, 2) = <<Str("home"), i.remoteUser>>
  IN IF inHome /\ rel = <<Str(".claude")>> THEN 1
     ELSE IF inHome /\ rel = hostCredFile THEN 2
     ELSE IF m.src = i.mountPath /\ m.dst = i.mountPath THEN 3
     ELSE IF inHome /\ rel \in {<<Str(".codex")>>, <<Str(".gemini")>>, <<Str(".copilot")>>,
                                <<Str(".qwen")>>, <<Str(".cursor")>>, <<Str(".deepseek")>>,
                                <<Str(".config"), Str("amp")>>} THEN 4
     ELSE IF m.src = i.mainRepoGitDir /\ m.dst = i.mainRepoGitDir THEN 5
     ELSE IF inHome /\ rel \in {<<Str(".gitconfig")>>, <<Str(".ssh")>>,
                                <<Str(".config"), Str("gh")>>, <<Str(".gnupg")>>,
                                <<Str(".npmrc")>>} THEN 6
     ELSE IF inHome /\ rel = <<Str(".aws")>> THEN 7
     ELSE 0

\* C16: the mounts of the run argument vector come in the order .claude
\* directory, credential overlay, identity mount of the workspace, agent
\* config directories, .git directory of the main repository, optional
\* credential mounts, AWS config directory; the .claude directory is the
\* first mount and the overlay, when there is one, the second.
C16_MountOrder ==
  plan.built = 1 =>
    LET ms == plan.first
        class(j) == MountClass(ms[j], plan.in)
    IN /\ Len(ms) >= 2
       /\ \A j \in 1..Len(ms) : class(j) # 0
       /\ \A j, k \in 1..Len(ms) : j < k => class(j) <= class(k)
       /\ class(1) = 1
       /\ \A j \in 1..Len(ms) : class(j) \in {1, 2, 3, 5, 7} => \A k \in 1..Len(ms) : class(k) = class(j) => k = j
       /\ \E j \in 1..Len(ms) : class(j) = 3
       /\ \A j \in 1..Len(ms) : class(j) = 2 => j = 2

\* a plan that has a mount of every kind
C16_Witness ==
  /\ plan.built = 1
  /\ \A c \in 1..7 : \E j \in 1..Len(plan.first) : MountClass(plan.first[j], plan.in) = c

\* the path of the shared credential file, spelled out
SharedCredentialFile ==
  <<Str("home"), Str("u"), Str(".local"), Str("share"), Str(App), Str("credentials"),
    Str("claude-credentials.json")>>

\* the entries a step adds to the log of invocation p that are os.WriteFile
\* calls on the credential file
NewWrites(p, before, after) ==
  {j \in 1..Len(after[p]) :
     /\ after[p][j].op = "write file"
     /\ (j > Len(before[p]) \/ before[p][j] # after[p][j])}

C18_ColdRunCreatesWorktree ==
  \A p \in Procs :
    (/\ pc[p] # "idle" /\ out[p].kind # "error"
     /\ inv[p].cfg.Worktree = Empty /\ ~inv[p].cfg.NoWorktree /\ ~inv[p].cfg.Reconnect)
    => LET made == HomeDir \o <<Str(".local"), Str("share"), Str(App), Str("worktrees"),
                                Base(WorkDir), sanitizeBranchName(CurrentBranch)>>
       IN /\ inv[p].mountPath = made
          /\ \E w \in DOMAIN worktrees : worktrees[w] = made
          /\ inv[p].containerName = <<App, "-">> \o Base(WorkDir) \o <<"-">> \o CurrentBranch
          /\ out[p].kind = "exec" => out[p].exec.w = made

\* ------------------------------------------------- container runtime client
\* the commands a host may have on PATH, a preference may name, or
\* DOCKER_CMD may hold
RuntimeNames == {"docker", "podman", "container", "nerdctl"}

\* the order of the PATH scan
runtimes == <<"docker", "podman", "container">>

\* a client, or the error of its construction
ClientOf(cmd) == [ok |-> TRUE, cmd |-> cmd, err |-> ""]

ClientError(err) == [ok |-> FALSE, cmd |-> "", err |-> err]

\* UseSpecificRuntime: the named runtime, when exec.LookPath finds it
UseSpecificRuntime(runtime, onPath) ==
  IF runtime \in onPath THEN ClientOf(runtime) ELSE ClientError("runtime not found in PATH")

\* DetectCLI: DOCKER_CMD when set, else the first of docker, podman,
\* container that exec.LookPath finds
DetectCLI(envCmd, onPath) ==
  IF envCmd # ""
  THEN IF envCmd \in onPath THEN ClientOf(envCmd) ELSE ClientError("DOCKER_CMD not found in PATH")
  ELSE IF \E k \in 1..Len(runtimes) : runtimes[k] \in onPath
       THEN ClientOf(runtimes[CHOOSE k \in 1..Len(runtimes) :
                                /\ runtimes[k] \in onPath
                                /\ \A j \in 1..(k - 1) : runtimes[j] \notin onPath])
       ELSE ClientError("no container runtime found")

\* NewClientWithRuntime: the preference when there is one, else DetectCLI
NewClientWithRuntime(preferredRuntime, envCmd, onPath) ==
  IF preferredRuntime # ""
  THEN UseSpecificRuntime(preferredRuntime, onPath)
  ELSE DetectCLI(envCmd, onPath)

\* the inputs of one construction: the preference, DOCKER_CMD, the commands
\* on PATH
ClientInputs ==
  [preferredRuntime : RuntimeNames \cup {""}, envCmd : RuntimeNames \cup {""},
   onPath : SUBSET RuntimeNames]

\* Run constructs its client (docker.NewClientWithRuntime(config.Runtime, ..))
NewClient ==
  /\ plan.built = 0
  /\ plan' = [plan EXCEPT !.first = NewClientWithRuntime(plan.in.preferredRuntime,
                                                         plan.in.envCmd, plan.in.onPath),
                          !.built = 1]
  /\ UNCHANGED <<runVars, configFile, upd>>

InitClient ==
  /\ host = QuietHost
  /\ NoRuns
  /\ InitConfig
  /\ plan \in {[in |-> i, first |-> <<>>, second |-> <<>>, built |-> 0, steps |-> <<>>] :
                 i \in ClientInputs}

NextClient == NewClient

\* the choice of the container command, over preferences, environments and
\* PATHs
SpecClient == InitClient /\ [][NextClient]_vars

\* C19: the runtime is DOCKER_CMD when that variable is set; otherwise the
\* explicit preference; otherwise the first of docker, podman, container
\* found on PATH.
C19_OverrideBeatsPreference ==
  plan.built = 1 =>
    LET i == plan.in
        want == IF i.envCmd # "" THEN i.envCmd
                ELSE IF i.preferredRuntime # "" THEN i.preferredRuntime
                ELSE IF "docker" \in i.onPath THEN "docker"
                ELSE IF "podman" \in i.onPath THEN "podman"
                ELSE IF "container" \in i.onPath THEN "container"
                ELSE ""
    IN IF want \in i.onPath
       THEN plan.first.ok /\ plan.first.cmd = want
       ELSE ~plan.first.ok

\* ------------------------------------------------------- container naming
\* the characters of a worktree name: a letter, the three characters
\* sanitizeName replaces, and three it does not
NameChars == {"a", "/", ":", " ", "-", "_", "@"}

RECURSIVE NamesUpTo(_)
\* the names of at most n characters
NamesUpTo(n) ==
  IF n = 0 THEN {<<>>}
  ELSE LET shorter == NamesUpTo(n - 1)
       IN shorter \cup {Append(w, c) : w \in {x \in shorter : Len(x) = n - 1}, c \in NameChars}

\* project directories; the last component may itself hold a space or a colon
ProjectPaths ==
  {WorkDir, <<Str("srv"), <<"my", " ", "p">>>>, <<Str("srv"), <<"a", ":", "b">>>>}

\* container.GenerateContainerName(workDir, worktreeName)
NameContainer ==
  /\ plan.built = 0
  /\ plan' = [plan EXCEPT !.first = GenerateContainerName(plan.in.projectPath,
                                                          plan.in.worktreeName),
                          !.built = 1]
  /\ UNCHANGED <<runVars, configFile, upd>>

InitNaming ==
  /\ host = QuietHost
  /\ NoRuns
  /\ InitConfig
  /\ plan \in {[in |-> [projectPath |-> pp, worktreeName |-> w],
                first |-> <<>>, second |-> <<>>, built |-> 0, steps |-> <<>>] :
                 pp \in ProjectPaths, w \in NamesUpTo(MaxNameLen)}

NextNaming == NameContainer

\* container names, over project directories and worktree names
SpecNaming == InitNaming /\ [][NextNaming]_vars

\* C20: the container name is <app>-<basename(project)>-<s>, where s is the
\* worktree name with every '/', ':' and space replaced by '-' and every
\* other character, and the length, unchanged.
C20_NameSanitized ==
  plan.built = 1 =>
    LET w == plan.in.worktreeName
        pp == plan.in.projectPath
        s == [k \in 1..Len(w) |-> IF w[k] \in {"/", ":", " "} THEN "-" ELSE w[k]]
    IN plan.first = <<App, "-">> \o pp[Len(pp)] \o <<"-">> \o s

\* a name with all three replaced characters and one that stays, in a
\* project whose own name holds a space
C20_Witness ==
  /\ plan.built = 1
  /\ plan.in.worktreeName = <<"@", "/", ":", " ">>
  /\ plan.in.projectPath = <<Str("srv"), <<"my", " ", "p">>>>
  /\ plan.first = <<App, "-", "my", " ", "p", "-", "@", "-", "-", "-">>

\* ------------------------------------------------------- label round trip
\* the runtime's Labels field with the pairs in the given order (the runtime
\* keeps labels in a map; the order of the pairs is not fixed)
LabelStringIn(labels, order) ==
  Join([i \in 1..Len(order) |-> <<LabelKey[order[i]], "=">> \o labels[order[i]]], <<",">>)

\* splitByComma of cmd/list.go: as strings.Split, without a trailing empty part
splitByComma(s) ==
  LET parts == Split(s, ",") IN
  IF parts[Len(parts)] = <<>> THEN SubSeq(parts, 1, Len(parts) - 1) ELSE parts

\* parseLabelsWithLaunchInfo of cmd/list.go
parseLabelsWithLaunchInfo(labels) ==
  LET pairs == splitByComma(labels) IN
  [project |-> ParsedValue(pairs, LabelKey.project),
   worktree |-> ParsedValue(pairs, LabelKey.worktree),
   hostPath |-> ParsedValue(pairs, LabelKey.hostPath),
   launchCommand |-> ParsedValue(pairs, LabelKey.launchCommand)]

\* worktree names, host paths and command lines of the label sets: plain ones,
\* and ones holding '=' or ','
LabelWorktrees == {<<"main">>, <<"fix", ",", "v2">>}

LabelHostPaths == {PathString(WorkDir), <<"/", "srv", "/", "a", ",", "b">>}

LabelCommands ==
  {<<App, " ", "run", " ", "claude">>,
   <<App, " ", "run", " ", "--env", " ", "DEBUG", "=", "1", " ", "claude">>,
   <<App, " ", "run", " ", "--env", " ", "L", "=", "a", ",", "b", " ", "claude">>}

LabelInputs ==
  [project : {<<"p">>}, worktree : LabelWorktrees, hostPath : LabelHostPaths,
   launchCommand : LabelCommands]

\* the labels of a created container come back from the runtime's listing and
\* are parsed by Run (getContainerDetails) and by the list command
ParseLabels ==
  /\ plan.built = 0
  /\ \E order \in Perms({"managedBy", "project", "worktree", "hostPath", "launchCommand"}) :
       LET i == plan.in
           labels == GenerateLabelsWithLaunchInfo(i.project, i.worktree, i.hostPath,
                                                  i.launchCommand)
           text == LabelStringIn(labels, order)
       IN plan' = [plan EXCEPT !.first = parseLabelsFromString(text),
                               !.second = parseLabelsWithLaunchInfo(text),
                               !.steps = text,
                               !.built = 1]
  /\ UNCHANGED <<runVars, configFile, upd>>

InitLabels ==
  /\ host = QuietHost
  /\ NoRuns
  /\ InitConfig
  /\ plan \in {[in |-> i, first |-> <<>>, second |-> <<>>, built |-> 0, steps |-> <<>>] :
                 i \in LabelInputs}

NextLabels == ParseLabels

\* generated labels, listed by the runtime and parsed back
SpecLabels == InitLabels /\ [][NextLabels]_vars

\* C21: parsing the runtime's comma-joined label string of a generated label
\* set returns exactly the original project, worktree, host path and launch
\* command, with either parser.
C21_LabelRoundTrip ==
  plan.built = 1 =>
    /\ plan.first = plan.in
    /\ plan.second = plan.in

\* the round trip of label sets whose values hold no comma ('=' allowed)
C21_RoundTripWithoutComma ==
  (plan.built = 1 /\ \A f \in DOMAIN plan.in : ~Contains(plan.in[f], <<",">>)) =>
    /\ plan.first = plan.in
    /\ plan.second = plan.in

\* --------------------------------------------------------------- reconnect
\* C22: on reconnect, the working directory passed to exec is the host path
\* recorded in the <app>-host-path label of the running container.
C22_ReconnectDirFromLabel ==
  \A p \in Procs :
    (pc[p] = "done" /\ inv[p].cfg.Reconnect /\ out[p].kind = "exec"
     /\ containers[inv[p].containerName].st = "running"
     /\ ContainerDetails(containers, inv[p].containerName).HostPath # Empty)
    => PathString(out[p].exec.w)
         = ContainerDetails(containers, inv[p].containerName).HostPath

\* --------------------------------------------------- read-only credentials
\* the container paths of the optional credential mounts
CredentialTargets(remoteUser) ==
  {InHome(remoteUser, rel) :
     rel \in {<<Str(".gitconfig")>>, <<Str(".ssh")>>, <<Str(".config"), Str("gh")>>,
              <<Str(".gnupg")>>, <<Str(".npmrc")>>}}

\* C23: every optional credential mount Run adds (.gitconfig, .ssh, the gh
\* config directory, .gnupg, .npmrc) is read-only.
C23_CredentialMountsReadOnly ==
  plan.built = 1 =>
    \A k \in 1..Len(plan.first) :
      plan.first[k].dst \in CredentialTargets(plan.in.remoteUser) => plan.first[k].ro

StartedOwn(p) ==
  \E i \in 1..Len(log[p]) : log[p][i].op = "run" /\ log[p][i].ok

C25_RunningIffNameEquals ==
  \A p \in Procs :
    /\ pc[p] = "rmStale" => inv[p].running = "no"
    /\ pc[p] \in {"getID", "conflict"} => inv[p].running = "yes"

\* ----------------------------------------------------------- image of a run
\* C27: with a dockerfile in the dev-container spec, the image `run` uses is
\* the tag ensureImage inspected or built, whatever work_dir and mount_path
\* are.
C27_RunUsesEnsuredImage ==
  \A p \in Procs :
    (pc[p] # "idle" /\ inv[p].devConfig.DockerFile # Empty) =>
      \A i \in 1..Len(log[p]) :
        log[p][i].op \in {"image inspect", "build"} =>
          log[p][i].tgt = imageName(inv[p].devConfig, Base(inv[p].workDir))

\* -------------------------------------------------- configuration UI save
\* the toggles the configuration UI shows
UiToggles == {"ssh", "github", "gpg", "npm", "aws"}

\* configToListItems and createSettingsModal: the runtime and the five
\* credential toggles, with the values of the existing config
configToListItems(cfg) ==
  [runtime |-> cfg.container_runtime,
   ssh |-> cfg.default_credentials.ssh, github |-> cfg.default_credentials.gh,
   gpg |-> cfg.default_credentials.gpg, npm |-> cfg.default_credentials.npm,
   aws |-> cfg.default_credentials.aws]

\* the user flips the toggles in `flipped`
Toggle(items, flipped) ==
  [k \in DOMAIN items |-> IF k \in flipped THEN ~items[k] ELSE items[k]]

\* applyListConfigUpdates and the credential part of applyModalConfigUpdates:
\* creds := Credentials{Git: true}, then one assignment per item
applyListConfigUpdates(items) ==
  [container_runtime |-> items.runtime,
   default_credentials |-> [git |-> TRUE, ssh |-> items.ssh, gh |-> items.github,
                            gpg |-> items.gpg, npm |-> items.npm, aws |-> items.aws]]

\* UpdateConfigSafely(configPath, updates) as one step
UpdateConfigSafely(file, updates) ==
  SaveConfig(ApplyUpdates(LoadExistingOrEmpty(file), updates), file)

\* the credential defaults a config.json may hold
StoredCredentials ==
  [git : BOOLEAN, ssh : BOOLEAN, gh : BOOLEAN, gpg : BOOLEAN, npm : BOOLEAN, aws : BOOLEAN]

\* the configuration UI: shown with the existing config, some toggles
\* flipped or none, then "Save Configuration"
SaveFromUi ==
  /\ plan.built = 0
  /\ LET existing == LoadExistingOrEmpty(configFile)
         items == Toggle(configToListItems(existing), plan.in.flipped)
     IN /\ configFile' = UpdateConfigSafely(configFile, applyListConfigUpdates(items))
        /\ plan' = [plan EXCEPT !.first = existing, !.built = 1]
  /\ UNCHANGED <<runVars, upd>>

InitUi ==
  /\ host = QuietHost
  /\ NoRuns
  /\ upd = [u \in Updaters |-> IdleUpdate]
  /\ configFile \in {FileWith([k \in KnownKeys |->
                                 IF k = "default_credentials" THEN c
                                 ELSE IF k = "container_runtime" THEN r
                                 ELSE "old"]) :
                       c \in StoredCredentials, r \in {"docker", "podman"}}
  /\ plan \in {[in |-> [flipped |-> f], first |-> <<>>, second |-> <<>>, built |-> 0,
                steps |-> <<>>] : f \in {{}} \cup {{t} : t \in UiToggles}}

NextUi == SaveFromUi

\* saving from the configuration UI
SpecUi == InitUi /\ [][NextUi]_vars

\* C28: a save from the configuration UI without a change leaves
\* default_credentials as it was; a stored git = false stays false.
C28_SaveKeepsCredentials ==
  (plan.built = 1 /\ plan.in.flipped = {}) =>
    configFile.fields.default_credentials = plan.first.default_credentials

\* ------------------------------------------------------ names of identities
\* C29: two identities that differ in project path or in worktree name have
\* different container names.  The identity beside the one of the state:
\* any other worktree name of the same length, any other project directory.
C29_NamesInjective ==
  plan.built = 1 =>
    \A pp \in ProjectPaths \cup {OtherDir}, w \in NamesUpTo(Len(plan.in.worktreeName)) :
      <<pp, w>> # <<plan.in.projectPath, plan.in.worktreeName>>
        => GenerateContainerName(pp, w) # plan.first

\* -------------------------------------------------- dev container's user
\* the devcontainer.json files of the model: image, dockerFile and remoteUser
\* each present or not
DevcontainerFiles ==
  [Image : {Empty, Str("project-image")}, DockerFile : {Empty, Str("Dockerfile")},
   RemoteUser : {Empty, Str("dev")}]

\* userdetect.DetectContainerUser(image): an error, or the user it finds
DetectOutcomes == {[err |-> TRUE, User |-> Empty], [err |-> FALSE, User |-> Str("node")]}

\* devcontainer.LoadConfig for a devcontainer.json that exists and parses:
\* a missing remoteUser is detected when the file names an image, "root" when
\* the detection fails
LoadDevcontainer(json, detected) ==
  IF json.RemoteUser = Empty /\ json.Image # Empty
  THEN [json EXCEPT !.RemoteUser = IF detected.err THEN Str("root") ELSE detected.User]
  ELSE json

\* Run loads the dev container spec and plans mounts and HOME with its user
PlanForDevcontainer ==
  /\ plan.built = 0
  /\ LET devConfig == LoadDevcontainer(plan.in.json, plan.in.detected) IN
     plan' = [plan EXCEPT !.first = MountArgs(host, devConfig.RemoteUser, WorkDir, Root,
                                              plan.in.creds),
                          !.second = HomeEnv(devConfig.RemoteUser),
                          !.steps = devConfig.RemoteUser,
                          !.built = 1]
  /\ UNCHANGED <<runVars, configFile, upd>>

InitDevcontainer ==
  /\ host = QuietHost
  /\ NoRuns
  /\ InitConfig
  /\ plan \in {[in |-> [json |-> j, detected |-> d, creds |-> c],
                first |-> <<>>, second |-> <<>>, built |-> 0, steps |-> <<>>] :
                 j \in DevcontainerFiles, d \in DetectOutcomes, c \in CredentialToggles}

NextDevcontainer == PlanForDevcontainer

\* the mount and env plan over devcontainer.json files
SpecDevcontainer == InitDevcontainer /\ [][NextDevcontainer]_vars

\* C30: when Run plans mounts and env, remote_user is a non-empty name for
\* every devcontainer.json that parses; no mount target has an empty path
\* component (/home//...) and HOME is not /home/.
C30_RemoteUserNonEmpty ==
  plan.built = 1 =>
    /\ plan.steps # Empty
    /\ \A k \in 1..Len(plan.first) :
         \A c \in 1..Len(plan.first[k].dst) : plan.first[k].dst[c] # Empty
    /\ plan.second.v # <<"/", "home", "/">>

\* ------------------------------------------- two invocations, one identity
\* two processes run `run` in the same project directory at the same time
Racers == {1, 2}

\* one Linux host with docker, one macOS host with Apple Container
RaceHosts ==
  {h \in RealHosts : h.credSize = 20 /\ ~h.claudeJson /\ h.devcontainer = "none"
                     /\ (h.runtime = "docker" => h.isLinux)}

\* Run steps 1 to 4 and 6 of an invocation for the current branch without
\* --reconnect
RaceStart(p) ==
  /\ Start(p)
  /\ ~inv'[p].cfg.Reconnect /\ ~inv'[p].cfg.NoWorktree
  /\ inv'[p].cfg.Worktree = Empty /\ inv'[p].cfg.HostPath = Empty

InitRace ==
  /\ host \in RaceHosts
  /\ containers = [n \in AllNames |-> NoContainer]
  /\ images = {}
  /\ worktrees = (CurrentBranch :> WorkDir)
  /\ credFile = "absent"
  /\ inv = [p \in Racers |-> IdleInv]
  /\ pc = [p \in Racers |-> "idle"]
  /\ log = [p \in Racers |-> <<>>]
  /\ out = [p \in Racers |-> NoResult]
  /\ runs = 0
  /\ InitConfig /\ InitPlan

NextRace ==
  \/ \E p \in Racers : RaceStart(p)
  \/ \E p \in Racers : EnsureImage(p)
  \/ \E p \in Racers : CheckRunning(p)
  \/ \E p \in Racers : Conflict(p)
  \/ \E p \in Racers : RmStale(p)
  \/ \E p \in Racers : StartContainer(p)
  \/ \E p \in Racers : MkDirs(p)
  \/ \E p \in Racers : CopyClaude(p)
  \/ \E p \in Racers : SeedCreds(p)
  \/ \E p \in Racers : Rollback(p)
  \/ \E p \in Racers : ExecUser(p)
  \/ \E n \in AllNames : ContainerStops(n)

\* Run invocations of two processes, interleaved step by step
SpecRace == InitRace /\ [][NextRace]_vars

\* the invocation of p is between its `run -d`, which created container n, and
\* its end
SettingUp(p, n) ==
  /\ pc[p] \notin {"idle", "done"}
  /\ containers[n].by = p
  /\ \E i \in 1..Len(log[p]) : log[p][i].op = "run" /\ log[p][i].tgt = n /\ log[p][i].ok

\* a command of process q removes container n in this step
Removes(q, n) ==
  /\ containers[n].st # "absent" /\ containers'[n].st = "absent"
  /\ Len(log'[q]) > Len(log[q])
  /\ log'[q][Len(log'[q])].op \in {"rm", "rm -f"}

\* C26: when two invocations for the same identity, neither with --reconnect,
\* interleave, no `rm <name>` and no rollback `rm -f` of one removes a
\* container the other has started (and is still setting up).
C26_RemovesOnlyOwnContainer ==
  [][\A q \in Racers : \A n \in AllNames :
       Removes(q, n) => ~ \E p \in Racers \ {q} : SettingUp(p, n)]_vars

\* the rollback of one invocation removes no running container of the other
C26_RollbackSparesRunning ==
  [][\A q \in Racers : \A n \in AllNames :
       (Removes(q, n) /\ containers[n].st = "running")
       => ~ \E p \in Racers \ {q} : SettingUp(p, n)]_vars

====
